---- MODULE Spec2Model ----
(***************************************************************************)
(* A model of python/image_optimizer.py: the relevance analysis of an      *)
(* image (analyze_image), the two resize profiles (resize_for_ocr,         *)
(* resize_for_vlm) and the directory scan (analyze_directory).             *)
(*                                                                         *)
(* Numbers.  A score of the program is a double in [0,1]; here it is an    *)
(* integer count of millionths (1.0 is Micro), and the weighted sum        *)
(* overall_relevance is a count of 1e-8 (1.0 is 100 * Micro), so that the  *)
(* sum itself loses nothing.  Where the program rounds a double to a       *)
(* number of decimals and the exact value lies halfway between two         *)
(* results, the double may lie on either side: the rounding takes a tie    *)
(* argument and the caller draws it from {0, 1}.  The arithmetic of the    *)
(* resizes (max_width / original_width, original_height * scale, int())    *)
(* is IEEE-754 binary64 arithmetic done on bit sequences, because its      *)
(* rounding decides the output dimensions.                                 *)
(***************************************************************************)
EXTENDS Integers, Sequences, FiniteSets, TLC

VARIABLES
    disk,          \* the image files the single-image calls read and write
    dir,           \* the scanned directory: entry -> file content
    result,        \* what the last call returned, or the exception it raised
    locals,        \* the unrounded locals of the last analyze_image call
    pc,            \* "idle", or "scan" inside analyze_directory's loop
    todo,          \* analyze_directory: the entries iterdir() has yet to yield
    results,       \* analyze_directory: the dict under construction
    min_relevance, \* analyze_directory: its min_relevance argument
    previous,      \* history: the last image analyze_image analysed, the way
                   \* its doubles rounded, the verdict it got, and whether
                   \* the analysis before was of that image too
    futures,       \* process_batch: the futures of its executor, by index
    _model,        \* embedding_worker: the module-level model singleton
    _device        \* embedding_worker: the device _model was loaded to

vars ==
    <<disk, dir, result, locals, pc, todo, results, min_relevance, previous,
      futures, _model, _device>>

----------------------------------------------------------------------------
(* Units and program constants *)

Micro == 1000 * 1000

MIN_DIMENSION_VLM == 50
MIN_RELEVANCE_SCORE == 30 * Micro
LOGO_COLOR_THRESHOLD == 16
EXTREME_ASPECT_RATIO == 4
OCR_MAX_WIDTH == 4800
VLM_MAX_DIMENSION == 2048
MAXCOLORS == 65536

Max(a, b) == IF a >= b THEN a ELSE b
Min(a, b) == IF a <= b THEN a ELSE b

\* Python's None, and an optional value that is present
None == [none |-> TRUE]

----------------------------------------------------------------------------
(* Decimal rounding: round(x, ndigits) and the format spec :.2f *)

\* n / d rounded to the nearest integer; at an exact half the result is the
\* lower neighbour when tie = 0 and the upper one when tie = 1
RoundDiv(n, d, tie) ==
    LET q == n \div d
        r == n % d
    IN  IF 2 * r > d \/ (2 * r = d /\ tie = 1) THEN q + 1 ELSE q

\* floor(x * 10^6 / d) for 0 <= x <= d, without leaving 32 bits
MulDivMicro(x, d) ==
    LET q1 == (x * 1000) \div d
        r1 == (x * 1000) % d
    IN  q1 * 1000 + (r1 * 1000) \div d

----------------------------------------------------------------------------
(* IEEE-754 binary64, round to nearest even.  TLC's integers are 32 bits   *)
(* wide, so a significand is a sequence of limbs (digits to the base       *)
(* 2^LimbBits, most significant first), and a double is [m, e]: the        *)
(* integer with the limbs m, times 2^-e.                                   *)

MantissaBits == 52 + 1
LimbBits == 12 + 1
Base == 2 ^ LimbBits

\* the limbs of n >= 0, without leading zeros
RECURSIVE IntToLimbs(_)
IntToLimbs(n) == IF n = 0 THEN <<>> ELSE IntToLimbs(n \div Base) \o <<n % Base>>

\* the integer with these limbs (it must fit 32 bits)
RECURSIVE LimbsToInt(_)
LimbsToInt(m) ==
    IF m = <<>> THEN 0
    ELSE Base * LimbsToInt(SubSeq(m, 1, Len(m) - 1)) + m[Len(m)]

\* m + 1
RECURSIVE IncLimbs(_)
IncLimbs(m) ==
    IF m = <<>> THEN <<1>>
    ELSE LET n == Len(m) IN
         IF m[n] + 1 < Base THEN SubSeq(m, 1, n - 1) \o <<m[n] + 1>>
         ELSE IncLimbs(SubSeq(m, 1, n - 1)) \o <<0>>

\* m * k for an integer 0 < k < 2^17, limb by limb from the least
\* significant one
RECURSIVE MulLimbs(_, _, _, _, _)
MulLimbs(m, k, i, carry, acc) ==
    IF i = 0 THEN IntToLimbs(carry) \o acc
    ELSE LET t == k * m[i] + carry
         IN  MulLimbs(m, k, i - 1, t \div Base, <<t % Base>> \o acc)

\* binary digit t of m (digit 0 is the least significant), and the number
\* of binary digits of m
Bit(m, t) ==
    LET i == Len(m) - (t \div LimbBits) IN
    IF i < 1 THEN 0 ELSE (m[i] \div (2 ^ (t % LimbBits))) % 2

BitLength(m) ==
    IF m = <<>> THEN 0
    ELSE LimbBits * (Len(m) - 1) + (CHOOSE k \in 1..LimbBits : m[1] < 2 ^ k /\ 2 ^ (k - 1) <= m[1])

\* floor(m / 2^d): limb u (from the least significant) gathers the binary
\* digits d + u * LimbBits .. d + (u + 1) * LimbBits - 1 of m
ShiftRight(m, d) ==
    LET bits == BitLength(m) - d
        n == (bits + LimbBits - 1) \div LimbBits
    IN  IF bits <= 0 THEN <<>>
        ELSE [i \in 1..n |->
                 LET u == n - i
                     lowLimb == Len(m) - ((d + u * LimbBits) \div LimbBits)
                     r == d % LimbBits
                 IN  (m[lowLimb] \div (2 ^ r))
                     + (IF lowLimb > 1 THEN (m[lowLimb - 1] % (2 ^ r)) * (2 ^ (LimbBits - r))
                        ELSE 0)]

\* m / 2^d rounded to the nearest integer, ties to even
ShiftRightRound(m, d) ==
    IF d <= 0 THEN m
    ELSE LET kept   == ShiftRight(m, d)
             guard  == Bit(m, d - 1)
             sticky == \E t \in 0..(d - 2) : Bit(m, t) = 1
             odd    == Bit(m, d) = 1
         IN  IF guard = 1 /\ (sticky \/ odd) THEN IncLimbs(kept) ELSE kept

\* a double holds MantissaBits significant binary digits
RoundToDouble(x) ==
    LET d == BitLength(x.m) - MantissaBits IN
    IF d <= 0 THEN x ELSE [m |-> ShiftRightRound(x.m, d), e |-> x.e - d]

\* long division: n more limbs of the quotient of rem / b
RECURSIVE DivLimbs(_, _, _, _)
DivLimbs(rem, b, n, acc) ==
    IF n = 0 THEN [m |-> acc, rem |-> rem]
    ELSE DivLimbs((rem * Base) % b, b, n - 1, Append(acc, (rem * Base) \div b))

\* a * 2^j for the least j with a * 2^j >= b
RECURSIVE Normalise(_, _, _)
Normalise(a, b, j) == IF a >= b THEN [a |-> a, j |-> j] ELSE Normalise(2 * a, b, j + 1)

\* the double a / b, for integers 0 < a <= b < 2^18: the quotient to
\* MantissaBits binary digits, rounded by the remainder
FloatDiv(a, b) ==
    LET nm == Normalise(a, b, 0)
        q  == DivLimbs(nm.a - b, b, (MantissaBits - 1) \div LimbBits, <<1>>)
        up == 2 * q.rem > b \/ (2 * q.rem = b /\ q.m[Len(q.m)] % 2 = 1)
    IN  [m |-> IF up THEN IncLimbs(q.m) ELSE q.m,
         e |-> MantissaBits - 1 + nm.j]

\* the double k * x, for an integer 0 < k < 2^17 (k itself converts exactly)
FloatMulInt(k, x) ==
    RoundToDouble([m |-> MulLimbs(x.m, k, Len(x.m), 0, <<>>), e |-> x.e])

\* int(x), for a double 0 <= x < 2^31
FloatToInt(x) == LimbsToInt(ShiftRight(x.m, x.e))

\* round(x, 4) in units of 1e-4: the decimal rounding is done on the exact
\* value of the double
FloatRound4(x) ==
    LimbsToInt(ShiftRightRound(MulLimbs(x.m, 10000, Len(x.m), 0, <<>>), x.e))

----------------------------------------------------------------------------
(* Images.  A decoded image is its size and the number of distinct colours *)
(* getcolors() finds in the sample get_color_diversity takes of it.        *)

Image(w, h, c) == [kind |-> "image", width |-> w, height |-> h, colors |-> c]
Corrupt == [kind |-> "corrupt"]
Absent == [kind |-> "absent"]

\* Image.open: the exception it raises on this file, or None
OpenError(file) ==
    IF file.kind = "absent" THEN "FileNotFoundError"
    ELSE IF file.kind = "corrupt" THEN "UnidentifiedImageError"
    ELSE "None"

\* math.log2(u) in millionths, for u in 1..255
Log2Micro ==
    <<
       0, 1000000, 1584963, 2000000, 2321928, 2584963,
       2807355, 3000000, 3169925, 3321928, 3459432, 3584963,
       3700440, 3807355, 3906891, 4000000, 4087463, 4169925,
       4247928, 4321928, 4392317, 4459432, 4523562, 4584963,
       4643856, 4700440, 4754888, 4807355, 4857981, 4906891,
       4954196, 5000000, 5044394, 5087463, 5129283, 5169925,
       5209453, 5247928, 5285402, 5321928, 5357552, 5392317,
       5426265, 5459432, 5491853, 5523562, 5554589, 5584963,
       5614710, 5643856, 5672425, 5700440, 5727920, 5754888,
       5781360, 5807355, 5832890, 5857981, 5882643, 5906891,
       5930737, 5954196, 5977280, 6000000, 6022368, 6044394,
       6066089, 6087463, 6108524, 6129283, 6149747, 6169925,
       6189825, 6209453, 6228819, 6247928, 6266787, 6285402,
       6303781, 6321928, 6339850, 6357552, 6375039, 6392317,
       6409391, 6426265, 6442943, 6459432, 6475733, 6491853,
       6507795, 6523562, 6539159, 6554589, 6569856, 6584963,
       6599913, 6614710, 6629357, 6643856, 6658211, 6672425,
       6686501, 6700440, 6714246, 6727920, 6741467, 6754888,
       6768184, 6781360, 6794416, 6807355, 6820179, 6832890,
       6845490, 6857981, 6870365, 6882643, 6894818, 6906891,
       6918863, 6930737, 6942515, 6954196, 6965784, 6977280,
       6988685, 7000000, 7011227, 7022368, 7033423, 7044394,
       7055282, 7066089, 7076816, 7087463, 7098032, 7108524,
       7118941, 7129283, 7139551, 7149747, 7159871, 7169925,
       7179909, 7189825, 7199672, 7209453, 7219169, 7228819,
       7238405, 7247928, 7257388, 7266787, 7276124, 7285402,
       7294621, 7303781, 7312883, 7321928, 7330917, 7339850,
       7348728, 7357552, 7366322, 7375039, 7383704, 7392317,
       7400879, 7409391, 7417853, 7426265, 7434628, 7442943,
       7451211, 7459432, 7467606, 7475733, 7483816, 7491853,
       7499846, 7507795, 7515700, 7523562, 7531381, 7539159,
       7546894, 7554589, 7562242, 7569856, 7577429, 7584963,
       7592457, 7599913, 7607330, 7614710, 7622052, 7629357,
       7636625, 7643856, 7651052, 7658211, 7665336, 7672425,
       7679480, 7686501, 7693487, 7700440, 7707359, 7714246,
       7721099, 7727920, 7734710, 7741467, 7748193, 7754888,
       7761551, 7768184, 7774787, 7781360, 7787903, 7794416,
       7800900, 7807355, 7813781, 7820179, 7826548, 7832890,
       7839204, 7845490, 7851749, 7857981, 7864186, 7870365,
       7876517, 7882643, 7888743, 7894818, 7900867, 7906891,
       7912889, 7918863, 7924813, 7930737, 7936638, 7942515,
       7948367, 7954196, 7960002, 7965784, 7971544, 7977280,
       7982994, 7988685, 7994353
    >>

\* mutant: the count of a sample over the cap is reported as it is
get_color_diversity_NoCap(img) ==
    LET unique_colors == img.colors IN
    [unique_colors |-> unique_colors,
     diversity_score |->
         IF unique_colors <= 1 THEN 0
         ELSE IF unique_colors >= 256 THEN Micro
         ELSE Log2Micro[unique_colors] \div 8]

\* (unique_colors, diversity_score) of the colours getcolors finds in the
\* sample; over maxcolors it returns None
get_color_diversity(img) ==
    IF img.colors > MAXCOLORS THEN [unique_colors |-> MAXCOLORS, diversity_score |-> Micro]
    ELSE LET unique_colors == img.colors IN
         [unique_colors |-> unique_colors,
          diversity_score |->
              IF unique_colors <= 1 THEN 0
              ELSE IF unique_colors >= 256 THEN Micro
              ELSE Log2Micro[unique_colors] \div 8]

\* mutant: the extreme branch without its floor max(0.1, ...)
calculate_aspect_score_NoFloor(width, height) ==
    IF width = 0 \/ height = 0 THEN 0
    ELSE LET hi == Max(width, height)
             lo == Min(width, height)
         IN  IF hi <= 2 * lo THEN Micro
             ELSE IF hi <= EXTREME_ASPECT_RATIO * lo
                  THEN MulDivMicro((EXTREME_ASPECT_RATIO + 2) * lo - hi,
                                   2 * (EXTREME_ASPECT_RATIO - 2) * lo)
             ELSE IF hi >= (EXTREME_ASPECT_RATIO + 5) * lo
                  THEN 0 - MulDivMicro(Min(hi - (EXTREME_ASPECT_RATIO + 5) * lo, 10 * lo), 10 * lo)
                  ELSE MulDivMicro((EXTREME_ASPECT_RATIO + 5) * lo - hi, 10 * lo)

\* ratio = hi / lo is kept as the fraction; the two decaying branches are
\*   1.0 - 0.5 * (ratio - 2.0) / (4.0 - 2.0)  =  (6 lo - hi) / (4 lo)
\*   0.5 - 0.1 * (ratio - 4.0)                =  (9 lo - hi) / (10 lo)
calculate_aspect_score(width, height) ==
    IF width = 0 \/ height = 0 THEN 0
    ELSE LET hi == Max(width, height)
             lo == Min(width, height)
         IN  IF hi <= 2 * lo THEN Micro
             ELSE IF hi <= EXTREME_ASPECT_RATIO * lo
                  THEN MulDivMicro((EXTREME_ASPECT_RATIO + 2) * lo - hi,
                                   2 * (EXTREME_ASPECT_RATIO - 2) * lo)
             ELSE Max(Micro \div 10,
                      IF hi >= (EXTREME_ASPECT_RATIO + 5) * lo THEN 0
                      ELSE MulDivMicro((EXTREME_ASPECT_RATIO + 5) * lo - hi, 10 * lo))

\* mutant: the lowest step ends at 40 x 40 pixels
calculate_size_score_LowStep(width, height) ==
    LET pixels == width * height IN
    IF pixels < 40 * 40 THEN 0
    ELSE IF pixels < 100 * 100 THEN 2 * (Micro \div 10)
    ELSE IF pixels < 200 * 200 THEN 4 * (Micro \div 10)
    ELSE IF pixels < 400 * 400 THEN 7 * (Micro \div 10)
    ELSE Micro

\* mutant: the top step starts above 400 x 400 pixels
calculate_size_score_TopStepLate(width, height) ==
    LET pixels == width * height IN
    IF pixels < 50 * 50 THEN 0
    ELSE IF pixels < 100 * 100 THEN 2 * (Micro \div 10)
    ELSE IF pixels < 200 * 200 THEN 4 * (Micro \div 10)
    ELSE IF pixels <= 400 * 400 THEN 7 * (Micro \div 10)
    ELSE Micro

calculate_size_score(width, height) ==
    LET pixels == width * height IN
    IF pixels < 50 * 50 THEN 0
    ELSE IF pixels < 100 * 100 THEN 2 * (Micro \div 10)
    ELSE IF pixels < 200 * 200 THEN 4 * (Micro \div 10)
    ELSE IF pixels < 400 * 400 THEN 7 * (Micro \div 10)
    ELSE Micro

\* mutant: a ratio equal to k counts as above it
RatioAbove_Inclusive(max_dim, min_dim, k) ==
    IF min_dim > 0 THEN max_dim >= k * min_dim ELSE 999 > k

\* aspect_ratio = max_dim / min_dim if min_dim > 0 else 999, compared with an
\* integer k: the quotient of two integers below 2^52 is on the same side of k
\* as the exact fraction
RatioAbove(max_dim, min_dim, k) == IF min_dim > 0 THEN max_dim > k * min_dim ELSE 999 > k
RatioBelow(max_dim, min_dim, k) == IF min_dim > 0 THEN max_dim < k * min_dim ELSE 999 < k

\* class ImageCategory(Enum), by value
ImageCategory ==
    {"photo", "chart", "document", "logo", "icon", "decorative", "unknown"}

\* mutant: no return after the last rule, so that the call yields None
predict_category_NoDefault(width, height, unique_colors, color_diversity) ==
    LET max_dim == Max(width, height)
        min_dim == Min(width, height)
        pixels  == width * height
    IN  IF max_dim < 64 THEN "icon"
        ELSE IF unique_colors < 8 /\ max_dim < 200 THEN "icon"
        ELSE IF unique_colors < LOGO_COLOR_THRESHOLD /\ max_dim < 400 THEN "logo"
        ELSE IF RatioAbove(max_dim, min_dim, 6) THEN "decorative"
        ELSE IF color_diversity > 7 * (Micro \div 10) /\ pixels > 200 * 200 THEN "photo"
        ELSE IF LOGO_COLOR_THRESHOLD <= unique_colors /\ unique_colors < 256
             THEN IF RatioBelow(max_dim, min_dim, 2) THEN "chart" ELSE "document"
        ELSE IF unique_colors >= 256 THEN "photo"
        ELSE "None"

\* mutant: the aspect-ratio rule tried before the logo rule
predict_category_RatioFirst(width, height, unique_colors, color_diversity) ==
    LET max_dim == Max(width, height)
        min_dim == Min(width, height)
        pixels  == width * height
    IN  IF max_dim < 64 THEN "icon"
        ELSE IF unique_colors < 8 /\ max_dim < 200 THEN "icon"
        ELSE IF RatioAbove(max_dim, min_dim, 6) THEN "decorative"
        ELSE IF unique_colors < LOGO_COLOR_THRESHOLD /\ max_dim < 400 THEN "logo"
        ELSE IF color_diversity > 7 * (Micro \div 10) /\ pixels > 200 * 200 THEN "photo"
        ELSE IF LOGO_COLOR_THRESHOLD <= unique_colors /\ unique_colors < 256
             THEN IF RatioBelow(max_dim, min_dim, 2) THEN "chart" ELSE "document"
        ELSE IF unique_colors >= 256 THEN "photo"
        ELSE "unknown"

predict_category(width, height, unique_colors, color_diversity) ==
    LET max_dim == Max(width, height)
        min_dim == Min(width, height)
        pixels  == width * height
    IN  IF max_dim < 64 THEN "icon"
        ELSE IF unique_colors < 8 /\ max_dim < 200 THEN "icon"
        ELSE IF unique_colors < LOGO_COLOR_THRESHOLD /\ max_dim < 400 THEN "logo"
        ELSE IF RatioAbove(max_dim, min_dim, 6) THEN "decorative"
        ELSE IF color_diversity > 7 * (Micro \div 10) /\ pixels > 200 * 200 THEN "photo"
        ELSE IF LOGO_COLOR_THRESHOLD <= unique_colors /\ unique_colors < 256
             THEN IF RatioBelow(max_dim, min_dim, 2) THEN "chart" ELSE "document"
        ELSE IF unique_colors >= 256 THEN "photo"
        ELSE "unknown"

\* mutant: a document earns the bonus of a logo
category_bonus_LowDocument ==
    [photo |-> 10, chart |-> 10, document |-> 2, unknown |-> 5,
     logo |-> 2, icon |-> 1, decorative |-> 1]

\* in tenths
category_bonus ==
    [photo |-> 10, chart |-> 10, document |-> 9, unknown |-> 5,
     logo |-> 2, icon |-> 1, decorative |-> 1]

\* mutant: the weights of size and aspect exchanged
overall_relevance_of_Exchanged(size_score, aspect_score, color_diversity, category) ==
    20 * size_score + 30 * aspect_score + 30 * color_diversity
        + 2 * category_bonus[category] * Micro

\* 0.30 * size_score + 0.20 * aspect_score + 0.30 * color_diversity
\*   + 0.20 * category_bonus[category], in units of 1e-8
overall_relevance_of(size_score, aspect_score, color_diversity, category) ==
    30 * size_score + 20 * aspect_score + 30 * color_diversity
        + 2 * category_bonus[category] * Micro

\* the locals of analyze_image before the decision
analyze_locals(img) ==
    LET width  == img.width
        height == img.height
        cd     == get_color_diversity(img)
        size_score   == calculate_size_score(width, height)
        aspect_score == calculate_aspect_score(width, height)
        category == predict_category(width, height, cd.unique_colors, cd.diversity_score)
    IN  [width |-> width, height |-> height,
         unique_colors |-> cd.unique_colors,
         color_diversity |-> cd.diversity_score,
         size_score |-> size_score,
         aspect_score |-> aspect_score,
         category |-> category,
         overall_relevance |->
             overall_relevance_of(size_score, aspect_score, cd.diversity_score, category)]

\* The skip reasons: an f-string is its literal text and the values
\* formatted into it (relevance2f is {overall_relevance:.2f} in hundredths)
TooSmallReason(l) ==
    [text |-> "Too small: ", width |-> l.width, height |-> l.height,
     limit |-> MIN_DIMENSION_VLM]

CategoryReason(l) == [text |-> "Predicted category: ", category |-> l.category]

LogoReason(l, tie) ==
    [text |-> "Likely logo with low relevance: ",
     relevance2f |-> RoundDiv(l.overall_relevance, Micro, tie.fmt)]

\* mutant: the low-relevance branch forgets its reason
LowRelevanceReason_Missing(l, tie) == None

LowRelevanceReason(l, tie) ==
    [text |-> "Low relevance score: ",
     relevance2f |-> RoundDiv(l.overall_relevance, Micro, tie.fmt),
     limit |-> MIN_RELEVANCE_SCORE]

\* mutant: the category test tried before the size test
decide_CategoryFirst(l, tie) ==
    IF l.category \in {"icon", "decorative"}
    THEN [should_vlm |-> FALSE, skip_reason |-> CategoryReason(l)]
    ELSE IF Max(l.width, l.height) < MIN_DIMENSION_VLM
    THEN [should_vlm |-> FALSE, skip_reason |-> TooSmallReason(l)]
    ELSE IF l.category = "logo" /\ l.overall_relevance < 40 * Micro
    THEN [should_vlm |-> FALSE, skip_reason |-> LogoReason(l, tie)]
    ELSE IF l.overall_relevance < MIN_RELEVANCE_SCORE
    THEN [should_vlm |-> FALSE, skip_reason |-> LowRelevanceReason(l, tie)]
    ELSE [should_vlm |-> TRUE, skip_reason |-> None]

\* (should_vlm, skip_reason): the if/elif chain of analyze_image
decide(l, tie) ==
    IF Max(l.width, l.height) < MIN_DIMENSION_VLM
    THEN [should_vlm |-> FALSE, skip_reason |-> TooSmallReason(l)]
    ELSE IF l.category \in {"icon", "decorative"}
    THEN [should_vlm |-> FALSE, skip_reason |-> CategoryReason(l)]
    ELSE IF l.category = "logo" /\ l.overall_relevance < 40 * Micro
    THEN [should_vlm |-> FALSE, skip_reason |-> LogoReason(l, tie)]
    ELSE IF l.overall_relevance < MIN_RELEVANCE_SCORE
    THEN [should_vlm |-> FALSE, skip_reason |-> LowRelevanceReason(l, tie)]
    ELSE [should_vlm |-> TRUE, skip_reason |-> None]

\* The ImageAnalysis analyze_image returns for a decoded image: aspect_ratio
\* in hundredths, the scores in thousandths (round(x, 2), round(x, 3))
\* mutant: the verdict of the call before is kept and handed out again
analyze_image_Memo(img, tie) ==
    IF previous # None THEN previous.value
    ELSE
    LET l == analyze_locals(img)
        d == decide(l, tie)
        lo == Min(l.width, l.height)
    IN  [width |-> l.width,
         height |-> l.height,
         aspect_ratio |-> IF lo > 0 THEN RoundDiv(100 * Max(l.width, l.height), lo, tie.ratio)
                          ELSE 999 * 100,
         unique_colors |-> l.unique_colors,
         color_diversity_score |-> RoundDiv(l.color_diversity, 1000, tie.diversity),
         size_score |-> RoundDiv(l.size_score, 1000, 0),
         aspect_score |-> RoundDiv(l.aspect_score, 1000, tie.aspect),
         overall_relevance |-> RoundDiv(l.overall_relevance, 100 * 1000, tie.overall),
         predicted_category |-> l.category,
         should_vlm |-> d.should_vlm,
         skip_reason |-> d.skip_reason]

analyze_image(img, tie) ==
    LET l == analyze_locals(img)
        d == decide(l, tie)
        lo == Min(l.width, l.height)
    IN  [width |-> l.width,
         height |-> l.height,
         aspect_ratio |-> IF lo > 0 THEN RoundDiv(100 * Max(l.width, l.height), lo, tie.ratio)
                          ELSE 999 * 100,
         unique_colors |-> l.unique_colors,
         color_diversity_score |-> RoundDiv(l.color_diversity, 1000, tie.diversity),
         size_score |-> RoundDiv(l.size_score, 1000, 0),
         aspect_score |-> RoundDiv(l.aspect_score, 1000, tie.aspect),
         overall_relevance |-> RoundDiv(l.overall_relevance, 100 * 1000, tie.overall),
         predicted_category |-> l.category,
         should_vlm |-> d.should_vlm,
         skip_reason |-> d.skip_reason]

\* the sides the double may lie on when n / d is rounded: both at an exact
\* half, and otherwise the side plays no part
TieSides(n, d) == IF 2 * (n % d) = d THEN {0, 1} ELSE {0}

\* the tie arguments analyze_image may meet on this image
Ties(img) ==
    LET l == analyze_locals(img)
        lo == Min(l.width, l.height)
    IN  [ratio     : IF lo > 0 THEN TieSides(100 * Max(l.width, l.height), lo) ELSE {0},
         diversity : TieSides(l.color_diversity, 1000),
         aspect    : TieSides(l.aspect_score, 1000),
         overall   : TieSides(l.overall_relevance, 100 * 1000),
         fmt       : TieSides(l.overall_relevance, Micro)]

----------------------------------------------------------------------------
(* The resizes.  A call yields what it returns or raises and the files     *)
(* after it: [raised, value, disk].                                        *)

Raise(exc, d) == [raised |-> exc, value |-> None, disk |-> d]
Return(dict, d) == [raised |-> "None", value |-> dict, disk |-> d]

\* mutant: img.resize accepts an empty target size
ResizeError_Never(new_width, new_height) == "None"

\* img.resize(size, LANCZOS): Pillow refuses an empty target size
ResizeError(new_width, new_height) ==
    IF new_width < 1 \/ new_height < 1 THEN "ValueError" ELSE "None"

\* The file img.resize(...).save(path) leaves.  Pixel data is not followed
\* through the filter: the colour count stays, capped by the pixel count.
Resized(img, new_width, new_height) ==
    Image(new_width, new_height, Min(img.colors, new_width * new_height))

\* int(dim * scale) with scale = bound / of, all in doubles
ScaledDim(dim, bound, of) == FloatToInt(FloatMulInt(dim, FloatDiv(bound, of)))

\* round(scale, 4) in units of 1e-4
ScaleFactor(bound, of) == FloatRound4(FloatDiv(bound, of))

\* mutant: the bound itself no longer fits
FitsWidth_Strict(original_width, max_width) == original_width < max_width

\* the tests that decide against resizing
FitsWidth(original_width, max_width) == original_width <= max_width
FitsDimension(max_dim, max_dimension) == max_dim <= max_dimension
TooSmallForVlm(max_dim, skip_below) == max_dim < skip_below

resize_for_ocr(d, input_path, output_path, max_width) ==
    LET img == d[input_path]
        original_width  == img.width
        original_height == img.height
    IN
    IF OpenError(img) # "None" THEN Raise(OpenError(img), d)
    ELSE IF FitsWidth(original_width, max_width)
    THEN Return([success |-> TRUE, resized |-> FALSE,
                 original_width |-> original_width,
                 original_height |-> original_height,
                 output_width |-> original_width,
                 output_height |-> original_height,
                 output_path |-> output_path],
                IF input_path # output_path THEN [d EXCEPT ![output_path] = img] ELSE d)
    ELSE LET new_width  == max_width
             new_height == ScaledDim(original_height, max_width, original_width)
         IN  IF ResizeError(new_width, new_height) # "None"
             THEN Raise(ResizeError(new_width, new_height), d)
             ELSE Return([success |-> TRUE, resized |-> TRUE,
                          original_width |-> original_width,
                          original_height |-> original_height,
                          output_width |-> new_width,
                          output_height |-> new_height,
                          scale_factor |-> ScaleFactor(max_width, original_width),
                          output_path |-> output_path],
                         [d EXCEPT ![output_path] = Resized(img, new_width, new_height)])

\* mutant: the image is saved before the size is looked at
resize_for_vlm_SaveThenSkip(d, input_path, output_path, max_dimension, skip_below) ==
    LET img == d[input_path]
        original_width  == img.width
        original_height == img.height
        max_dim == Max(original_width, original_height)
    IN
    IF OpenError(img) # "None" THEN Raise(OpenError(img), d)
    ELSE IF TooSmallForVlm(max_dim, skip_below)
    THEN Return([success |-> TRUE, skipped |-> TRUE,
                 skip_reason |-> [text |-> "Image too small: ",
                                  width |-> original_width,
                                  height |-> original_height],
                 original_width |-> original_width,
                 original_height |-> original_height],
                [d EXCEPT ![output_path] = img])
    ELSE IF FitsDimension(max_dim, max_dimension)
    THEN Return([success |-> TRUE, resized |-> FALSE,
                 original_width |-> original_width,
                 original_height |-> original_height,
                 output_width |-> original_width,
                 output_height |-> original_height,
                 output_path |-> output_path],
                IF input_path # output_path THEN [d EXCEPT ![output_path] = img] ELSE d)
    ELSE LET new_width  == ScaledDim(original_width, max_dimension, max_dim)
             new_height == ScaledDim(original_height, max_dimension, max_dim)
         IN  IF ResizeError(new_width, new_height) # "None"
             THEN Raise(ResizeError(new_width, new_height), d)
             ELSE Return([success |-> TRUE, resized |-> TRUE,
                          original_width |-> original_width,
                          original_height |-> original_height,
                          output_width |-> new_width,
                          output_height |-> new_height,
                          scale_factor |-> ScaleFactor(max_dimension, max_dim),
                          output_path |-> output_path],
                         [d EXCEPT ![output_path] = Resized(img, new_width, new_height)])

resize_for_vlm(d, input_path, output_path, max_dimension, skip_below) ==
    LET img == d[input_path]
        original_width  == img.width
        original_height == img.height
        max_dim == Max(original_width, original_height)
    IN
    IF OpenError(img) # "None" THEN Raise(OpenError(img), d)
    ELSE IF TooSmallForVlm(max_dim, skip_below)
    THEN Return([success |-> TRUE, skipped |-> TRUE,
                 skip_reason |-> [text |-> "Image too small: ",
                                  width |-> original_width,
                                  height |-> original_height],
                 original_width |-> original_width,
                 original_height |-> original_height],
                d)
    ELSE IF FitsDimension(max_dim, max_dimension)
    THEN Return([success |-> TRUE, resized |-> FALSE,
                 original_width |-> original_width,
                 original_height |-> original_height,
                 output_width |-> original_width,
                 output_height |-> original_height,
                 output_path |-> output_path],
                IF input_path # output_path THEN [d EXCEPT ![output_path] = img] ELSE d)
    ELSE LET new_width  == ScaledDim(original_width, max_dimension, max_dim)
             new_height == ScaledDim(original_height, max_dimension, max_dim)
         IN  IF ResizeError(new_width, new_height) # "None"
             THEN Raise(ResizeError(new_width, new_height), d)
             ELSE Return([success |-> TRUE, resized |-> TRUE,
                          original_width |-> original_width,
                          original_height |-> original_height,
                          output_width |-> new_width,
                          output_height |-> new_height,
                          scale_factor |-> ScaleFactor(max_dimension, max_dim),
                          output_path |-> output_path],
                         [d EXCEPT ![output_path] = Resized(img, new_width, new_height)])

----------------------------------------------------------------------------
(* The directory scan *)

image_extensions == {".png", ".jpg", ".jpeg", ".gif", ".webp", ".bmp", ".tiff", ".tif"}

\* str.lower() on the suffixes that occur
Lower(suffix) ==
    CASE suffix = ".JPG" -> ".jpg"
      [] suffix = ".PNG" -> ".png"
      [] suffix = ".TXT" -> ".txt"
      [] OTHER -> suffix

EmptyResults ==
    [total |-> 0, should_vlm |-> 0, skip_too_small |-> 0, skip_logo_icon |-> 0,
     skip_decorative |-> 0, skip_low_relevance |-> 0, images |-> <<>>]

\* "Too small" in (analysis.skip_reason or "")
MentionsTooSmall(skip_reason) ==
    skip_reason # None /\ skip_reason.text = "Too small: "

\* mutant: the category tests tried before the size test
Bucket_CategoryFirst(analysis) ==
    IF analysis.should_vlm THEN "should_vlm"
    ELSE IF analysis.predicted_category \in {"logo", "icon"} THEN "skip_logo_icon"
    ELSE IF analysis.predicted_category = "decorative" THEN "skip_decorative"
    ELSE IF MentionsTooSmall(analysis.skip_reason) THEN "skip_too_small"
    ELSE "skip_low_relevance"

\* the counter the if/elif chain of the loop body increments
Bucket(analysis) ==
    IF analysis.should_vlm THEN "should_vlm"
    ELSE IF MentionsTooSmall(analysis.skip_reason) THEN "skip_too_small"
    ELSE IF analysis.predicted_category \in {"logo", "icon"} THEN "skip_logo_icon"
    ELSE IF analysis.predicted_category = "decorative" THEN "skip_decorative"
    ELSE "skip_low_relevance"

\* image_result, with skip_reason only when there is one
ImageResult(entry, analysis) ==
    IF analysis.skip_reason # None
    THEN [path |-> entry,
          width |-> analysis.width,
          height |-> analysis.height,
          category |-> analysis.predicted_category,
          relevance |-> analysis.overall_relevance,
          should_vlm |-> analysis.should_vlm,
          skip_reason |-> analysis.skip_reason]
    ELSE [path |-> entry,
          width |-> analysis.width,
          height |-> analysis.height,
          category |-> analysis.predicted_category,
          relevance |-> analysis.overall_relevance,
          should_vlm |-> analysis.should_vlm]

ErrorResult(entry, exc) == [path |-> entry, error |-> exc, should_vlm |-> FALSE]

\* mutant: the suffix is not looked at
LoopBody_NoFilter(res, entry, file, tie) ==
    LET counted == [res EXCEPT !.total = @ + 1] IN
    IF OpenError(file) # "None"
    THEN [counted EXCEPT !.images = Append(@, ErrorResult(entry, OpenError(file)))]
    ELSE LET analysis == analyze_image(file, tie)
             b == Bucket(analysis)
         IN  [counted EXCEPT !.images = Append(@, ImageResult(entry, analysis)),
                             ![b] = @ + 1]

\* mutant: a file that fails to open leaves no entry
LoopBody_DropError(res, entry, file, tie) ==
    IF Lower(entry.suffix) \notin image_extensions THEN res
    ELSE LET counted == [res EXCEPT !.total = @ + 1] IN
         IF OpenError(file) # "None"
         THEN counted
         ELSE LET analysis == analyze_image(file, tie)
                  b == Bucket(analysis)
              IN  [counted EXCEPT !.images = Append(@, ImageResult(entry, analysis)),
                                  ![b] = @ + 1]

\* mutant: total counts the analysed files only
LoopBody_CountAnalysed(res, entry, file, tie) ==
    IF Lower(entry.suffix) \notin image_extensions THEN res
    ELSE IF OpenError(file) # "None"
         THEN [res EXCEPT !.images = Append(@, ErrorResult(entry, OpenError(file)))]
         ELSE LET analysis == analyze_image(file, tie)
                  b == Bucket(analysis)
              IN  [res EXCEPT !.total = @ + 1,
                              !.images = Append(@, ImageResult(entry, analysis)),
                              ![b] = @ + 1]

\* one iteration of the for loop of analyze_directory on entry
LoopBody(res, entry, file, tie) ==
    IF Lower(entry.suffix) \notin image_extensions THEN res
    ELSE LET counted == [res EXCEPT !.total = @ + 1] IN
         IF OpenError(file) # "None"
         THEN [counted EXCEPT !.images = Append(@, ErrorResult(entry, OpenError(file)))]
         ELSE LET analysis == analyze_image(file, tie)
                  b == Bucket(analysis)
              IN  [counted EXCEPT !.images = Append(@, ImageResult(entry, analysis)),
                                  ![b] = @ + 1]

----------------------------------------------------------------------------
(* The bounded world *)

\* every size up to MaxSmallDim x MaxSmallDim
MaxSmallDim == 3

\* sizes on both sides of the thresholds of the analysis
AnalysisSizes ==
    {<<40, 40>>, <<49, 49>>, <<50, 50>>, <<63, 50>>, <<64, 30>>, <<64, 64>>,
     <<100, 100>>, <<199, 100>>, <<200, 100>>, <<199, 199>>, <<200, 200>>,
     <<201, 200>>, <<399, 399>>, <<400, 400>>, <<400, 67>>, <<400, 100>>,
     <<401, 100>>, <<600, 100>>, <<100, 600>>, <<601, 100>>, <<800, 100>>,
     <<1000, 1000>>, <<33, 8>>, <<800, 400>>}

\* sizes on both sides of the bounds of the resizes
ResizeSizes ==
    {<<5000, 1000>>, <<5000, 30>>, <<5000, 49>>, <<5000, 1>>, <<4800, 600>>,
     <<4801, 600>>, <<116, 145>>, <<101, 100>>, <<2215, 1000>>, <<1000, 2215>>,
     <<2048, 2048>>, <<2049, 30>>, <<161, 161>>, <<200, 2>>}

\* distinct colours in the sample
ColorCounts == {1, 2, 7, 8, 15, 16, 48, 49, 255, 256, 300}

ImagesOfSize(w, h, colors) == {Image(w, h, c) : c \in {x \in colors : x <= w * h}}

Images ==
    UNION ({ImagesOfSize(w, h, ColorCounts) : w \in 1..MaxSmallDim, h \in 1..MaxSmallDim}
           \cup {ImagesOfSize(s[1], s[2], ColorCounts) : s \in AnalysisSizes}
           \cup {ImagesOfSize(s[1], s[2], {300}) : s \in ResizeSizes})

\* the calls read in.png and write out.png, or in.png itself
Paths == {"in.png", "out.png"}
InputPaths == {"in.png"}

MaxWidths == {100, OCR_MAX_WIDTH}
MaxDimensions == {100, VLM_MAX_DIMENSION}
SkipBelows == {MIN_DIMENSION_VLM, 1}
MinRelevances == {MIN_RELEVANCE_SCORE, 50 * Micro}

\* the directory holds the first MaxEntries of these entries, or fewer
MaxEntries == 3
EntryNames ==
    <<[name |-> "a", suffix |-> ".png"],
      [name |-> "b", suffix |-> ".JPG"],
      [name |-> "notes", suffix |-> ".txt"],
      [name |-> "c", suffix |-> ".tiff"],
      [name |-> "d", suffix |-> ".gif"]>>
Entries == {EntryNames[i] : i \in 1..MaxEntries}

\* a photo, a tiny image, a banner, a flat logo, a flat wide strip
DirImages ==
    {Image(1000, 1000, 300), Image(40, 40, 1), Image(601, 100, 16),
     Image(100, 100, 8), Image(400, 67, 1)}

DirFiles(entry) ==
    IF Lower(entry.suffix) \in image_extensions
    THEN DirImages \cup {Corrupt, Absent}
    ELSE {Corrupt, Absent}

NoCall == [call |-> "none", raised |-> "None", value |-> None]

Init ==
    /\ \/ /\ disk \in {[p \in Paths |-> IF p = "in.png" THEN f ELSE Absent] :
                          f \in Images \cup {Corrupt, Absent}}
          /\ dir = [e \in Entries |-> Absent]
       \/ /\ disk = [p \in Paths |-> Absent]
          /\ dir \in {f \in [Entries -> DirImages \cup {Corrupt, Absent}] :
                         \A e \in Entries : f[e] \in DirFiles(e)}
    /\ result = NoCall
    /\ locals = None
    /\ pc = "idle"
    /\ todo = {}
    /\ results = EmptyResults
    /\ min_relevance = MIN_RELEVANCE_SCORE
    /\ previous = None
    /\ futures = <<>>
    /\ _model = None
    /\ _device = "None"

----------------------------------------------------------------------------
(* The calls.  A call's locals die with it: result holds what the last     *)
(* call handed back, with its arguments and the file it opened, and locals *)
(* the unrounded values of the analyze_image call it came from.            *)

\* The same operands round the same way: an image analysed again meets the
\* tie arguments it met before.
SameRounding(file) ==
    IF previous # None /\ previous.file = file THEN {previous.tie} ELSE Ties(file)

AnalyzeImage(image_path) ==
    /\ pc = "idle"
    /\ LET file == disk[image_path] IN
       IF OpenError(file) # "None"
       THEN /\ result' = [call |-> "analyze_image", image_path |-> image_path,
                          file |-> file, raised |-> OpenError(file), value |-> None]
            /\ locals' = None
            /\ UNCHANGED previous
       ELSE \E tie \in SameRounding(file) :
            /\ result' = [call |-> "analyze_image", image_path |-> image_path,
                          file |-> file, raised |-> "None",
                          value |-> analyze_image(file, tie)]
            /\ locals' = analyze_locals(file)
            /\ previous' = [file |-> file, tie |-> tie,
                            value |-> analyze_image(file, tie),
                            again |-> previous # None /\ previous.file = file]
    /\ UNCHANGED <<disk, dir, pc, todo, results, min_relevance,
                   futures, _model, _device>>

ResizeForOcr(input_path, output_path, max_width) ==
    /\ pc = "idle"
    /\ LET r == resize_for_ocr(disk, input_path, output_path, max_width) IN
       /\ result' = [call |-> "resize_for_ocr", input_path |-> input_path,
                     output_path |-> output_path, max_width |-> max_width,
                     file |-> disk[input_path],
                     raised |-> r.raised, value |-> r.value]
       /\ disk' = r.disk
    /\ locals' = None
    /\ UNCHANGED <<dir, pc, todo, results, min_relevance, previous,
                   futures, _model, _device>>

ResizeForVlm(input_path, output_path, max_dimension, skip_below) ==
    /\ pc = "idle"
    /\ LET r == resize_for_vlm(disk, input_path, output_path, max_dimension, skip_below) IN
       /\ result' = [call |-> "resize_for_vlm", input_path |-> input_path,
                     output_path |-> output_path, max_dimension |-> max_dimension,
                     skip_below |-> skip_below, file |-> disk[input_path],
                     raised |-> r.raised, value |-> r.value]
       /\ disk' = r.disk
    /\ locals' = None
    /\ UNCHANGED <<dir, pc, todo, results, min_relevance, previous,
                   futures, _model, _device>>

\* analyze_directory up to its loop: iterdir() will yield the entries present
AnalyzeDirectoryStart(F) ==
    /\ pc = "idle"
    /\ pc' = "scan"
    /\ todo' = {e \in Entries : dir[e] # Absent}
    /\ results' = EmptyResults
    /\ min_relevance' = F
    /\ result' = NoCall
    /\ locals' = None
    /\ UNCHANGED <<disk, dir, previous, futures, _model, _device>>

\* one iteration of the loop, on whichever entry iterdir() yields next
AnalyzeDirectoryStep(entry) ==
    /\ pc = "scan"
    /\ entry \in todo
    /\ todo' = todo \ {entry}
    /\ \E tie \in (IF OpenError(dir[entry]) = "None" THEN Ties(dir[entry]) ELSE {None}) :
           results' = LoopBody(results, entry, dir[entry], tie)
    /\ UNCHANGED <<disk, dir, result, locals, pc, min_relevance, previous,
                   futures, _model, _device>>

\* the loop is over: return results
AnalyzeDirectoryReturn ==
    /\ pc = "scan"
    /\ todo = {}
    /\ pc' = "idle"
    /\ result' = [call |-> "analyze_directory", min_relevance |-> min_relevance,
                  raised |-> "None", value |-> results]
    /\ results' = EmptyResults
    /\ min_relevance' = MIN_RELEVANCE_SCORE
    /\ UNCHANGED <<disk, dir, locals, todo, previous, futures, _model, _device>>

Next ==
    \/ \E p \in InputPaths : AnalyzeImage(p)
    \/ \E i \in InputPaths, o \in Paths, w \in MaxWidths : ResizeForOcr(i, o, w)
    \/ \E i \in InputPaths, o \in Paths, m \in MaxDimensions, s \in SkipBelows :
           ResizeForVlm(i, o, m, s)
    \/ \E F \in MinRelevances : AnalyzeDirectoryStart(F)
    \/ \E e \in Entries : AnalyzeDirectoryStep(e)
    \/ AnalyzeDirectoryReturn

Spec == Init /\ [][Next]_vars

----------------------------------------------------------------------------
(* The command line: main() parses one of the four modes, runs it, prints  *)
(* one JSON document and leaves through sys.exit.  A run yields what it    *)
(* printed, its exit status, the files after it and whether it opened an   *)
(* image: [stdout, exit, disk, opened].  The arguments are those argparse  *)
(* accepted.                                                               *)

\* args.output when --output is left out (None) or empty: "not args.output"
NoOutput == ""
Outputs == Paths \cup {NoOutput}

\* print(json.dumps(doc)); sys.exit(status)
Exit(doc, status, d, opened) ==
    [stdout |-> <<doc>>, exit |-> status, disk |-> d, opened |-> opened]

\* the resize modes without --output
MissingOutput(d) ==
    Exit([success |-> FALSE, error |-> "--output required for resize operations"],
         1, d, FALSE)

\* mutant: an exception is reported and the exit status is 0 all the same
Caught_ExitZero(exc, d) ==
    Exit([success |-> FALSE,
          error |-> IF exc = "FileNotFoundError" THEN "File not found: " ELSE exc],
         0, d, TRUE)

\* the two except clauses
Caught(exc, d) ==
    Exit([success |-> FALSE,
          error |-> IF exc = "FileNotFoundError" THEN "File not found: " ELSE exc],
         1, d, TRUE)

\* print(json.dumps(result, indent=2)); sys.exit(0)
Printed(dict, d) == Exit(dict, 0, d, TRUE)

\* a call that raised is caught, one that returned is printed
Finish(r) == IF r.raised # "None" THEN Caught(r.raised, r.disk) ELSE Printed(r.value, r.disk)

\* the dict of the analyze mode, with skip_reason only when there is one
AnalysisDict(path, analysis) ==
    LET always == [success |-> TRUE,
                   path |-> path,
                   width |-> analysis.width,
                   height |-> analysis.height,
                   aspect_ratio |-> analysis.aspect_ratio,
                   unique_colors |-> analysis.unique_colors,
                   color_diversity_score |-> analysis.color_diversity_score,
                   size_score |-> analysis.size_score,
                   aspect_score |-> analysis.aspect_score,
                   overall_relevance |-> analysis.overall_relevance,
                   predicted_category |-> analysis.predicted_category,
                   should_vlm |-> analysis.should_vlm]
    IN  IF analysis.skip_reason # None
        THEN [f \in DOMAIN always \cup {"skip_reason"} |->
                 IF f = "skip_reason" THEN analysis.skip_reason ELSE always[f]]
        ELSE always

\* result = analyze_directory(...); result["success"] = True
DirectoryDict(res) ==
    [f \in DOMAIN res \cup {"success"} |-> IF f = "success" THEN TRUE ELSE res[f]]

main_resize_for_ocr(d, image, output, max_width) ==
    IF output = NoOutput THEN MissingOutput(d)
    ELSE Finish(resize_for_ocr(d, image, output, max_width))

main_resize_for_vlm(d, image, output, max_dimension) ==
    IF output = NoOutput THEN MissingOutput(d)
    ELSE Finish(resize_for_vlm(d, image, output, max_dimension, MIN_DIMENSION_VLM))

main_analyze(d, image, tie) ==
    IF OpenError(d[image]) # "None" THEN Caught(OpenError(d[image]), d)
    ELSE Printed(AnalysisDict(image, analyze_image(d[image], tie)), d)

\* what a run of main leaves behind
Ran(mode, image, output, file, run) ==
    [call |-> "main", mode |-> mode, image |-> image, output |-> output,
     file |-> file, stdout |-> run.stdout, exit |-> run.exit,
     opened |-> run.opened, raised |-> "SystemExit", value |-> None]

MainResizeForOcr(image, output, max_width) ==
    /\ pc = "idle"
    /\ LET run == main_resize_for_ocr(disk, image, output, max_width) IN
       /\ result' = Ran("resize_for_ocr", image, output, disk[image], run)
       /\ disk' = run.disk
    /\ UNCHANGED <<dir, locals, pc, todo, results, min_relevance, previous,
                   futures, _model, _device>>

MainResizeForVlm(image, output, max_dimension) ==
    /\ pc = "idle"
    /\ LET run == main_resize_for_vlm(disk, image, output, max_dimension) IN
       /\ result' = Ran("resize_for_vlm", image, output, disk[image], run)
       /\ disk' = run.disk
    /\ UNCHANGED <<dir, locals, pc, todo, results, min_relevance, previous,
                   futures, _model, _device>>

MainAnalyze(image) ==
    /\ pc = "idle"
    /\ \E tie \in (IF OpenError(disk[image]) = "None" THEN Ties(disk[image]) ELSE {None}) :
           result' = Ran("analyze", image, NoOutput, disk[image],
                         main_analyze(disk, image, tie))
    /\ UNCHANGED <<disk, dir, locals, pc, todo, results, min_relevance, previous,
                   futures, _model, _device>>

\* --analyze-dir: main calls analyze_directory(args.analyze_dir, args.min_relevance)
MainAnalyzeDir(F) == AnalyzeDirectoryStart(F)

\* analyze_directory has returned: main adds success, prints and exits
MainAnalyzeDirExit ==
    /\ pc = "scan"
    /\ todo = {}
    /\ pc' = "idle"
    /\ result' = [Ran("analyze_dir", "", NoOutput, None,
                      Printed(DirectoryDict(results), disk))
                  EXCEPT !.opened = results.total > 0]
    /\ results' = EmptyResults
    /\ min_relevance' = MIN_RELEVANCE_SCORE
    /\ UNCHANGED <<disk, dir, locals, todo, previous, futures, _model, _device>>

NextCli ==
    \/ \E i \in InputPaths, o \in Outputs, w \in MaxWidths : MainResizeForOcr(i, o, w)
    \/ \E i \in InputPaths, o \in Outputs, m \in MaxDimensions : MainResizeForVlm(i, o, m)
    \/ \E i \in InputPaths : MainAnalyze(i)
    \/ \E F \in MinRelevances : MainAnalyzeDir(F)
    \/ \E e \in Entries : AnalyzeDirectoryStep(e)
    \/ MainAnalyzeDirExit

SpecCli == Init /\ [][NextCli]_vars

----------------------------------------------------------------------------
(* The pure helpers, called on their own with arguments of any kind: sizes *)
(* with a zero side, colour counts and diversities that no sample yields   *)
(* together.                                                               *)

PureDims == {0, 1, 30, 63, 64, 100, 199, 200, 201, 399, 400, 600, 601, 1000}
PureColors == {0, 1, 7, 8, 15, 16, 255, 256, 300}
PureDiversities == {0, 7 * (Micro \div 10), 7 * (Micro \div 10) + 1, Micro}

\* the arguments of the call, drawn before it
PureArgs ==
    [width : PureDims, height : PureDims,
     unique_colors : PureColors, color_diversity : PureDiversities]

PredictCategory(width, height, unique_colors, color_diversity) ==
    /\ pc = "idle"
    /\ result = NoCall
    /\ locals = [width |-> width, height |-> height,
                 unique_colors |-> unique_colors, color_diversity |-> color_diversity]
    /\ result' = [call |-> "predict_category", width |-> width, height |-> height,
                  unique_colors |-> unique_colors, color_diversity |-> color_diversity,
                  raised |-> "None",
                  value |-> predict_category(width, height, unique_colors, color_diversity)]
    /\ UNCHANGED <<disk, dir, locals, pc, todo, results, min_relevance, previous,
                   futures, _model, _device>>

InitPure ==
    /\ disk = [p \in Paths |-> Absent]
    /\ dir = [e \in Entries |-> Absent]
    /\ result = NoCall
    /\ locals \in PureArgs
    /\ pc = "idle"
    /\ todo = {}
    /\ results = EmptyResults
    /\ min_relevance = MIN_RELEVANCE_SCORE
    /\ previous = None
    /\ futures = <<>>
    /\ _model = None
    /\ _device = "None"

NextPure ==
    \E w \in PureDims, h \in PureDims, u \in PureColors, d \in PureDiversities :
        PredictCategory(w, h, u, d)

SpecPure == InitPure /\ [][NextPure]_vars

----------------------------------------------------------------------------
(* The score helpers called on their own, twice in a row: the arguments of *)
(* both calls are drawn before the first, previous keeps the first call    *)
(* when the second has returned.                                           *)

\* the largest k with k * k <= n, searched between lo and hi
RECURSIVE Isqrt(_, _, _)
Isqrt(n, lo, hi) ==
    IF lo = hi THEN lo
    ELSE LET mid == (lo + hi + 1) \div 2 IN
         IF mid * mid <= n THEN Isqrt(n, mid, hi) ELSE Isqrt(n, lo, mid - 1)

\* int(dim * scale) with scale = (sample_size / total_pixels) ** 0.5 and
\* total_pixels = dim * other: the product is sqrt(sample_size * dim / other).
\* Where that root is a whole number k the doubles may land just under it,
\* so that int() gives k - 1 on one build and k on another.
SampledDim(dim, other, sample_size) ==
    LET k == Isqrt((sample_size * dim) \div other, 0, dim) IN
    IF k > 0 /\ k * k * other = sample_size * dim THEN {k - 1, k} ELSE {k}

\* the sizes sample_img can have
sample_img_sizes(width, height, sample_size) ==
    IF width * height > sample_size
    THEN {<<Max(1, sw), Max(1, sh)>> :
              sw \in SampledDim(width, height, sample_size),
              sh \in SampledDim(height, width, sample_size)}
    ELSE {<<width, height>>}

DEFAULT_SAMPLE_SIZE == 10000

\* sizes with a zero side, on both sides of the steps of the size score and
\* of the ratios 2, 4 and 8 of the aspect score
ScoreSizes ==
    {[width |-> s[1], height |-> s[2]] : s \in
        {<<0, 0>>, <<0, 100>>, <<100, 0>>, <<1, 1>>, <<49, 51>>, <<50, 50>>,
         <<99, 101>>, <<100, 100>>, <<199, 201>>, <<200, 200>>, <<399, 401>>,
         <<400, 400>>, <<401, 400>>, <<1000, 1000>>, <<100, 200>>, <<100, 201>>,
         <<201, 100>>, <<100, 300>>, <<100, 400>>, <<400, 100>>, <<401, 100>>,
         <<100, 401>>, <<100, 600>>, <<799, 100>>, <<800, 100>>, <<100, 800>>,
         <<801, 100>>, <<900, 100>>, <<1000, 100>>, <<1000, 1>>, <<4, 1>>,
         <<8, 1>>, <<9, 1>>}}

SampleSizes == {DEFAULT_SAMPLE_SIZE, 10 * DEFAULT_SAMPLE_SIZE}
SampledSizes ==
    {<<1, 1>>, <<100, 100>>, <<101, 100>>, <<200, 200>>, <<400, 100>>,
     <<1000, 1000>>, <<20000, 1>>, <<1, 10202>>, <<400, 400>>, <<10001, 1>>}
SampledColors == {1, 2, 15, 16, 255, 256, 300, MAXCOLORS, MAXCOLORS + 1, 70000}

\* an image and a sample_size, with no more colours than its sample has pixels
SampledImages ==
    {a \in [img : {Image(s[1], s[2], c) : s \in SampledSizes, c \in SampledColors},
            sample_size : SampleSizes] :
        \A d \in sample_img_sizes(a.img.width, a.img.height, a.sample_size) :
            a.img.colors <= d[1] * d[2]}

ScoreArgs ==
    [fn : {"calculate_aspect_score", "calculate_size_score"},
     args : {<<a, b>> : a \in ScoreSizes, b \in ScoreSizes}]
    \cup [fn : {"get_color_diversity"},
          args : {<<a, b>> : a \in SampledImages, b \in SampledImages}]

\* the call is the next one of the two
IsNextCall(fn, a) ==
    /\ pc = "idle"
    /\ locals.fn = fn
    /\ locals.args # <<>>
    /\ Head(locals.args) = a

\* the call returns: its record replaces that of the call before
ReturnScore(call) ==
    /\ result' = call
    /\ previous' = IF result = NoCall THEN None ELSE result
    /\ locals' = [locals EXCEPT !.args = Tail(@)]
    /\ UNCHANGED <<disk, dir, pc, todo, results, min_relevance,
                   futures, _model, _device>>

GetColorDiversity(img, sample_size) ==
    /\ IsNextCall("get_color_diversity", [img |-> img, sample_size |-> sample_size])
    /\ \E sample_img \in sample_img_sizes(img.width, img.height, sample_size) :
           ReturnScore([call |-> "get_color_diversity", img |-> img,
                        sample_size |-> sample_size, sample_img |-> sample_img,
                        raised |-> "None", value |-> get_color_diversity(img)])

CalculateAspectScore(width, height) ==
    /\ IsNextCall("calculate_aspect_score", [width |-> width, height |-> height])
    /\ ReturnScore([call |-> "calculate_aspect_score", width |-> width,
                    height |-> height, raised |-> "None",
                    value |-> calculate_aspect_score(width, height)])

CalculateSizeScore(width, height) ==
    /\ IsNextCall("calculate_size_score", [width |-> width, height |-> height])
    /\ ReturnScore([call |-> "calculate_size_score", width |-> width,
                    height |-> height, raised |-> "None",
                    value |-> calculate_size_score(width, height)])

InitScores ==
    /\ disk = [p \in Paths |-> Absent]
    /\ dir = [e \in Entries |-> Absent]
    /\ result = NoCall
    /\ locals \in ScoreArgs
    /\ pc = "idle"
    /\ todo = {}
    /\ results = EmptyResults
    /\ min_relevance = MIN_RELEVANCE_SCORE
    /\ previous = None
    /\ futures = <<>>
    /\ _model = None
    /\ _device = "None"

NextScores ==
    \/ \E a \in SampledImages : GetColorDiversity(a.img, a.sample_size)
    \/ \E a \in ScoreSizes : CalculateAspectScore(a.width, a.height)
    \/ \E a \in ScoreSizes : CalculateSizeScore(a.width, a.height)

SpecScores == InitScores /\ [][NextScores]_vars

----------------------------------------------------------------------------
(* analyze_image on images at the edges of the categories that are kept    *)
(* and of the two relevance thresholds.                                    *)

\* short strips of ratio 6 and just under it, the smallest chart, images
\* whose relevance lies just under 0.3 and 0.4, and sizes well inside
VerdictSizes ==
    {<<64, 11>>, <<66, 11>>, <<64, 33>>, <<64, 64>>, <<201, 200>>, <<402, 67>>,
     <<401, 80>>, <<402, 80>>, <<397, 132>>, <<399, 133>>, <<400, 67>>,
     <<1000, 1000>>, <<49, 49>>, <<200, 100>>}

VerdictImages == UNION {ImagesOfSize(s[1], s[2], ColorCounts) : s \in VerdictSizes}

InitVerdicts ==
    /\ disk \in {[p \in Paths |-> IF p = "in.png" THEN f ELSE Absent] :
                    f \in VerdictImages}
    /\ dir = [e \in Entries |-> Absent]
    /\ result = NoCall
    /\ locals = None
    /\ pc = "idle"
    /\ todo = {}
    /\ results = EmptyResults
    /\ min_relevance = MIN_RELEVANCE_SCORE
    /\ previous = None
    /\ futures = <<>>
    /\ _model = None
    /\ _device = "None"

NextVerdicts == \E p \in InputPaths : AnalyzeImage(p)

SpecVerdicts == InitVerdicts /\ [][NextVerdicts]_vars

----------------------------------------------------------------------------
(* ocr_worker.process_batch.  disk maps a path to the document there, with *)
(* what Datalab makes of it; locals holds the arguments and os.environ as  *)
(* the call sees it; futures[idx + 1] is the future of process_one(idx);   *)
(* results is the dict, as the pairs (idx, result) in insertion order.     *)

\* the subclasses of OCRError
OCRErrors ==
    {"OCRAPIError", "OCRRateLimitError", "OCRTimeoutError", "OCRFileError",
     "OCRAuthenticationError"}

Document(convert) == [kind |-> "document", convert |-> convert]

\* validate_file: the exception it raises, or "None"
validate_file(d, file_path) ==
    IF d[file_path] = Absent THEN "OCRFileError" ELSE "None"

\* get_api_key: the exception it raises, or "None"
get_api_key(environ) ==
    IF environ.DATALAB_API_KEY = "" THEN "ValueError" ELSE "None"

\* process_document: the OCRResult it returns or the exception it raises
process_document(d, environ, file_path, document_id, provenance_id) ==
    IF validate_file(d, file_path) # "None"
    THEN [raised |-> "OCRFileError",
          value |-> [type |-> "OCRFileError", file_path |-> file_path]]
    ELSE IF get_api_key(environ) # "None"
    THEN [raised |-> "ValueError", value |-> [type |-> "ValueError"]]
    ELSE IF d[file_path].convert = "DatalabTimeoutError"
    THEN [raised |-> "OCRTimeoutError", value |-> [type |-> "OCRTimeoutError"]]
    ELSE IF d[file_path].convert = "failed"
    THEN [raised |-> "OCRAPIError",
          value |-> [type |-> "OCRAPIError", status_code |-> 500]]
    ELSE [raised |-> "None",
          value |-> [type |-> "OCRResult", document_id |-> document_id,
                     provenance_id |-> provenance_id]]

\* process_one(idx): (idx, result) with the OCRError caught into the pair;
\* any other exception leaves it
process_one(d, l, idx) ==
    LET r == process_document(d, l.environ, l.file_paths[idx + 1],
                              l.document_ids[idx + 1], l.provenance_ids[idx + 1])
    IN  IF r.raised = "None" \/ r.raised \in OCRErrors
        THEN [raised |-> "None", value |-> <<idx, r.value>>]
        ELSE [raised |-> r.raised, value |-> None]

\* results[idx]
Lookup(res, idx) == (CHOOSE j \in 1..Len(res) : res[j][1] = idx)

\* mutant: list(results.values()), the results in the order they came in
InCompletionOrder(res, n) == [i \in 1..n |-> res[i][2]]

\* [results[i] for i in range(len(file_paths))]
InOriginalOrder(res, n) == [i \in 1..n |-> res[Lookup(res, i - 1)][2]]

MaxDocuments == 3
DocumentPaths == [i \in 1..MaxDocuments |-> <<"file", i>>]
DocumentIds == [i \in 1..MaxDocuments + 1 |-> <<"document", i>>]
ProvenanceIds == [i \in 1..MaxDocuments |-> <<"provenance", i>>]
DocumentFiles ==
    {Absent, Document("success"), Document("DatalabTimeoutError"), Document("failed")}
MaxConcurrents == {1, 3}
Environs == {[DATALAB_API_KEY |-> "key"], [DATALAB_API_KEY |-> ""]}

\* the arguments: n paths, n provenance ids, n document ids or one too many
BatchArgs ==
    {[file_paths |-> SubSeq(DocumentPaths, 1, n),
      document_ids |-> SubSeq(DocumentIds, 1, m),
      provenance_ids |-> SubSeq(ProvenanceIds, 1, n),
      max_concurrent |-> c,
      environ |-> e] :
        n \in 0..MaxDocuments, m \in 0..MaxDocuments + 1,
        c \in MaxConcurrents, e \in Environs}

InitBatch ==
    /\ locals \in {a \in BatchArgs :
                      Len(a.document_ids) - Len(a.file_paths) \in {0, 1}}
    /\ disk \in {d \in [{DocumentPaths[i] : i \in 1..MaxDocuments} -> DocumentFiles] :
                    \A i \in Len(locals.file_paths) + 1..MaxDocuments :
                        d[DocumentPaths[i]] = Absent}
    /\ dir = [e \in Entries |-> Absent]
    /\ result = NoCall
    /\ pc = "idle"
    /\ todo = {}
    /\ results = <<>>
    /\ min_relevance = MIN_RELEVANCE_SCORE
    /\ previous = None
    /\ futures = <<>>
    /\ _model = None
    /\ _device = "None"

Pending == [state |-> "pending", yielded |-> FALSE, outcome |-> None]

SameLengths(l) ==
    Len(l.file_paths) = Len(l.document_ids) /\ Len(l.document_ids) = Len(l.provenance_ids)

\* the call up to the as_completed loop: the length check, then one future
\* submitted for every index
ProcessBatch ==
    /\ pc = "idle"
    /\ result.call = "none"
    /\ IF ~SameLengths(locals)
       THEN /\ result' = [call |-> "process_batch", raised |-> "ValueError",
                          value |-> None]
            /\ UNCHANGED <<pc, futures>>
       ELSE /\ futures' = [i \in 1..Len(locals.file_paths) |-> Pending]
            /\ pc' = "as_completed"
            /\ UNCHANGED result
    /\ UNCHANGED <<disk, dir, locals, todo, results, min_relevance, previous,
                   _model, _device>>

Running == {i \in 1..Len(futures) : futures[i].state = "running"}
Queued == {i \in 1..Len(futures) : futures[i].state = "pending"}

\* a worker thread of the pool takes the work item at the head of the queue
WorkerStart(i) ==
    /\ i \in Queued
    /\ \A j \in Queued : i <= j
    /\ Cardinality(Running) < locals.max_concurrent
    /\ futures' = [futures EXCEPT ![i].state = "running"]
    /\ UNCHANGED <<disk, dir, result, locals, pc, todo, results, min_relevance,
                   previous, _model, _device>>

\* process_one(i - 1) comes back in its thread and sets its future
WorkerFinish(i) ==
    /\ i \in Running
    /\ futures' = [futures EXCEPT ![i].state = "finished",
                                  ![i].outcome = process_one(disk, locals, i - 1)]
    /\ UNCHANGED <<disk, dir, result, locals, pc, todo, results, min_relevance,
                   previous, _model, _device>>

\* one iteration of the loop over as_completed(futures), on a future that
\* has finished: future.result() hands back the pair or raises
AsCompleted(i) ==
    /\ pc = "as_completed"
    /\ i \in 1..Len(futures)
    /\ futures[i].state = "finished"
    /\ ~futures[i].yielded
    /\ futures' = [futures EXCEPT ![i].yielded = TRUE]
    /\ IF futures[i].outcome.raised = "None"
       THEN /\ results' = Append(results, futures[i].outcome.value)
            /\ UNCHANGED pc
       ELSE /\ pc' = "raising"
            /\ UNCHANGED results
    /\ UNCHANGED <<disk, dir, result, locals, todo, min_relevance, previous,
                   _model, _device>>

\* the loop is over and the executor shut down: return in original order
ProcessBatchReturn ==
    /\ pc = "as_completed"
    /\ \A i \in 1..Len(futures) : futures[i].yielded
    /\ pc' = "idle"
    /\ result' = [call |-> "process_batch", raised |-> "None",
                  value |-> InOriginalOrder(results, Len(locals.file_paths))]
    /\ UNCHANGED <<disk, dir, locals, todo, results, min_relevance, previous,
                   futures, _model, _device>>

\* an exception on its way out of the with block: the executor waits for
\* the futures still queued or running, then the exception leaves the call
ProcessBatchRaise ==
    /\ pc = "raising"
    /\ \A i \in 1..Len(futures) : futures[i].state = "finished"
    /\ pc' = "idle"
    /\ \E i \in 1..Len(futures) :
           /\ futures[i].yielded
           /\ futures[i].outcome.raised # "None"
           /\ result' = [call |-> "process_batch",
                         raised |-> futures[i].outcome.raised, value |-> None]
    /\ UNCHANGED <<disk, dir, locals, todo, results, min_relevance, previous,
                   futures, _model, _device>>

NextBatch ==
    \/ ProcessBatch
    \/ \E i \in 1..MaxDocuments : WorkerStart(i)
    \/ \E i \in 1..MaxDocuments : WorkerFinish(i)
    \/ \E i \in 1..MaxDocuments : AsCompleted(i)
    \/ ProcessBatchReturn
    \/ ProcessBatchRaise

SpecBatch == InitBatch /\ [][NextBatch]_vars

----------------------------------------------------------------------------
(* embedding_worker: the model singleton and the out-of-memory recovery.   *)
(* What a call finds around it (CUDA, the files under MODEL_PATH, whether  *)
(* the model loads, the dimension it reports, whether encode runs out of   *)
(* memory) is drawn when the call looks at it.  locals holds the arguments *)
(* and batch_size of embed_with_oom_recovery, previous the batch sizes it  *)
(* has tried with what came of each.                                       *)

EMBEDDING_DIM == 768
MIN_BATCH_SIZE == 1

\* a call of load_model or embed_chunks yields what it returns or raises
\* and the singleton after it
Yield(exc, value, model, device) ==
    [raised |-> exc, value |-> value, _model |-> model, _device |-> device]

\* load_model(device) with the globals _model = model and _device = dev
load_model(model, dev, device, env) ==
    IF model # None /\ dev = device THEN Yield("None", model, model, dev)
    ELSE IF ~env.cuda THEN Yield("GPUNotAvailableError", None, model, dev)
    ELSE IF env.model_path = "missing"
    THEN Yield("EmbeddingModelError", None, model, dev)
    ELSE IF env.model_path = "incomplete"
    THEN Yield("EmbeddingModelError", None, model, dev)
    ELSE IF env.load # "ok" THEN Yield("EmbeddingModelError", None, model, dev)
    ELSE LET loaded == [device |-> device, dim |-> env.dim] IN
         IF env.dim # EMBEDDING_DIM
         THEN Yield("EmbeddingModelError", None, loaded, device)
         ELSE Yield("None", loaded, loaded, device)

\* embed_chunks(chunks, batch_size, device); chunks is the number of chunks
embed_chunks(model, dev, chunks, batch_size, device, env) ==
    IF chunks = 0
    THEN Yield("None", [rows |-> 0, dim |-> EMBEDDING_DIM], model, dev)
    ELSE LET m == load_model(model, dev, device, env) IN
         IF m.raised # "None" THEN m
         ELSE IF env.encode # "ok" THEN Yield(env.encode, None, m._model, m._device)
         ELSE Yield("None", [rows |-> chunks, dim |-> m.value.dim], m._model, m._device)

Devices == {"cuda:0", "cuda:1"}
Dims == {EMBEDDING_DIM, EMBEDDING_DIM \div 2}
Envs ==
    [cuda : BOOLEAN, model_path : {"missing", "incomplete", "complete"},
     load : {"ok", "fails"}, dim : Dims, encode : {"ok", "OutOfMemoryError"}]
ChunkCounts == {0, 2}
InitialBatchSizes == {0, 1, 3, 8}

InitEmbed ==
    /\ disk = [p \in Paths |-> Absent]
    /\ dir = [e \in Entries |-> Absent]
    /\ result = NoCall
    /\ locals = None
    /\ pc = "idle"
    /\ todo = {}
    /\ results = EmptyResults
    /\ min_relevance = MIN_RELEVANCE_SCORE
    /\ previous = <<>>
    /\ futures = <<>>
    /\ _model = None
    /\ _device = "None"

LoadModel(device) ==
    /\ pc = "idle"
    /\ \E env \in Envs :
           LET r == load_model(_model, _device, device, env) IN
           /\ result' = [call |-> "load_model", device |-> device,
                         raised |-> r.raised, value |-> r.value]
           /\ _model' = r._model
           /\ _device' = r._device
    /\ UNCHANGED <<disk, dir, locals, pc, todo, results, min_relevance, previous,
                   futures>>

\* embed_with_oom_recovery up to its loop
EmbedWithOomRecovery(chunks, initial_batch_size, device) ==
    /\ pc = "idle"
    /\ pc' = "while"
    /\ locals' = [chunks |-> chunks, initial_batch_size |-> initial_batch_size,
                  device |-> device, batch_size |-> initial_batch_size]
    /\ previous' = <<>>
    /\ result' = NoCall
    /\ UNCHANGED <<disk, dir, todo, results, min_relevance, futures, _model, _device>>

EmbedResult(raised, value) ==
    [call |-> "embed_with_oom_recovery", chunks |-> locals.chunks,
     initial_batch_size |-> locals.initial_batch_size, device |-> locals.device,
     raised |-> raised, value |-> value]

\* one pass of the while loop: embed_chunks returns, runs out of memory, or
\* raises something the loop does not catch
Attempt ==
    /\ pc = "while"
    /\ locals.batch_size >= MIN_BATCH_SIZE
    /\ \E env \in Envs :
           LET r == embed_chunks(_model, _device, locals.chunks, locals.batch_size,
                                 locals.device, env)
           IN  /\ _model' = r._model
               /\ _device' = r._device
               /\ previous' = Append(previous, [batch_size |-> locals.batch_size,
                                                raised |-> r.raised])
               /\ IF r.raised = "OutOfMemoryError"
                  THEN /\ locals' = [locals EXCEPT !.batch_size = @ \div 2]
                       /\ UNCHANGED <<pc, result>>
                  ELSE /\ pc' = "idle"
                       /\ result' =
                              IF r.raised = "None"
                              THEN EmbedResult("None", [embeddings |-> r.value,
                                                        batch_size |-> locals.batch_size])
                              ELSE EmbedResult(r.raised, None)
                       /\ UNCHANGED locals
    /\ UNCHANGED <<disk, dir, todo, results, min_relevance, futures>>

\* the loop condition fails: raise GPUOutOfMemoryError
Exhausted ==
    /\ pc = "while"
    /\ locals.batch_size < MIN_BATCH_SIZE
    /\ pc' = "idle"
    /\ result' = EmbedResult("GPUOutOfMemoryError", None)
    /\ UNCHANGED <<disk, dir, locals, todo, results, min_relevance, previous,
                   futures, _model, _device>>

NextEmbed ==
    \/ \E d \in Devices : LoadModel(d)
    \/ \E c \in ChunkCounts, b \in InitialBatchSizes, d \in Devices :
           EmbedWithOomRecovery(c, b, d)
    \/ Attempt
    \/ Exhausted

SpecEmbed == InitEmbed /\ [][NextEmbed]_vars

\* the call runs on to its end once started
SpecEmbedLive == SpecEmbed /\ WF_vars(Attempt) /\ WF_vars(Exhausted)

----------------------------------------------------------------------------
(* Properties *)

Returned(call) == result.call = call /\ result.raised = "None"

\* C1: a resize that returns output dimensions never returns one above the
\* original, and on an image within the bound (its width for the OCR
\* profile; its larger side, not below skip_below, for the VLM profile) it
\* returns resized = false and the original dimensions.
C1_NoUpsampling ==
    /\ Returned("resize_for_ocr") =>
          LET v == result.value IN
          /\ v.original_width = result.file.width
          /\ v.original_height = result.file.height
          /\ v.output_width <= v.original_width
          /\ v.output_height <= v.original_height
          /\ "scale_factor" \in DOMAIN v => v.scale_factor <= 10000
          /\ v.original_width <= result.max_width =>
                /\ v.resized = FALSE
                /\ v.output_width = v.original_width
                /\ v.output_height = v.original_height
    /\ Returned("resize_for_vlm") =>
          LET v == result.value
              max_dim == Max(result.file.width, result.file.height)
          IN
          /\ v.original_width = result.file.width
          /\ v.original_height = result.file.height
          /\ "output_width" \in DOMAIN v =>
                /\ v.output_width <= v.original_width
                /\ v.output_height <= v.original_height
          /\ "scale_factor" \in DOMAIN v => v.scale_factor <= 10000
          /\ (max_dim <= result.max_dimension /\ max_dim >= result.skip_below) =>
                /\ "resized" \in DOMAIN v
                /\ v.resized = FALSE
                /\ v.output_width = v.original_width
                /\ v.output_height = v.original_height

\* an image exactly as wide as the bound went through the OCR profile
C1_Witness ==
    /\ Returned("resize_for_ocr")
    /\ result.file.width = result.max_width
    /\ result.value.resized = FALSE
    /\ result.value.output_height = result.file.height

\* C2: in every verdict of analyze_image, should_vlm is false exactly when
\* there is a skip_reason.
C2_SkipReasonIffNotProcessed ==
    Returned("analyze_image") =>
        ((result.value.should_vlm = FALSE) <=> (result.value.skip_reason # None))

\* an image skipped for its low relevance alone
C2_Witness ==
    /\ Returned("analyze_image")
    /\ result.value.should_vlm = FALSE
    /\ result.value.skip_reason # None
    /\ result.value.skip_reason.text = "Low relevance score: "

\* C3: size_score, aspect_score, color_diversity_score and overall_relevance
\* of every verdict lie in [0, 1], as do the unrounded values behind them.
InUnit(x, one) == 0 <= x /\ x <= one

C3_ScoresInUnitInterval ==
    Returned("analyze_image") =>
        /\ InUnit(result.value.size_score, 1000)
        /\ InUnit(result.value.aspect_score, 1000)
        /\ InUnit(result.value.color_diversity_score, 1000)
        /\ InUnit(result.value.overall_relevance, 1000)
        /\ InUnit(locals.size_score, Micro)
        /\ InUnit(locals.aspect_score, Micro)
        /\ InUnit(locals.color_diversity, Micro)
        /\ InUnit(locals.overall_relevance, 100 * Micro)

\* a strip more than nine times as long as it is wide: the aspect score
\* sits on its floor of 0.1
C3_Witness ==
    /\ Returned("analyze_image")
    /\ Max(result.file.width, result.file.height)
          > 9 * Min(result.file.width, result.file.height)
    /\ result.value.aspect_score = 100

\* The first rule of an ordered list <<[when, then], ...>> that matches
FirstMatch(rules) ==
    rules[CHOOSE i \in 1..Len(rules) :
              rules[i].when /\ \A j \in 1..(i - 1) : ~rules[j].when].then

\* C4: predict_category returns the category of the first rule that matches,
\* in the order: max side < 64 -> icon; colours < 8 and max side < 200 ->
\* icon; colours < 16 and max side < 400 -> logo; aspect ratio > 6 ->
\* decorative; diversity > 0.7 and area > 40000 -> photo; 16 <= colours < 256
\* -> chart if aspect ratio < 2 else document; colours >= 256 -> photo;
\* otherwise unknown.  (The aspect ratio of a size with a zero side counts as
\* very large.)
CategoryRules(w, h, u, d) ==
    LET hi == Max(w, h)
        lo == Min(w, h)
        ratioOver6  == lo = 0 \/ hi > 6 * lo
        ratioUnder2 == lo # 0 /\ hi < 2 * lo
    IN  << [when |-> hi < 64,                             then |-> "icon"],
           [when |-> u < 8 /\ hi < 200,                   then |-> "icon"],
           [when |-> u < 16 /\ hi < 400,                  then |-> "logo"],
           [when |-> ratioOver6,                          then |-> "decorative"],
           [when |-> 10 * d > 7 * Micro /\ w * h > 40000, then |-> "photo"],
           [when |-> 16 <= u /\ u < 256 /\ ratioUnder2,   then |-> "chart"],
           [when |-> 16 <= u /\ u < 256,                  then |-> "document"],
           [when |-> u >= 256,                            then |-> "photo"],
           [when |-> TRUE,                                then |-> "unknown"] >>

C4_FirstMatchingRule ==
    Returned("predict_category") =>
        result.value = FirstMatch(CategoryRules(result.width, result.height,
                                                result.unique_colors,
                                                result.color_diversity))

\* a long strip of few colours: the logo rule and the aspect-ratio rule both
\* match, and the earlier one is returned
C4_Witness ==
    /\ Returned("predict_category")
    /\ result.unique_colors < 16
    /\ Max(result.width, result.height) < 400
    /\ Max(result.width, result.height) > 6 * Min(result.width, result.height)
    /\ Min(result.width, result.height) > 0
    /\ result.value = "logo"

\* C5: the decision of analyze_image is the first match of: max side < 50 ->
\* skip, too small; category icon or decorative -> skip, the reason names the
\* category; category logo and overall_relevance < 0.4 -> skip, likely logo;
\* overall_relevance < 0.3 -> skip, low relevance; otherwise process.
DecisionRules(w, h, category, overall) ==
    << [when |-> Max(w, h) < 50,
        then |-> [should_vlm |-> FALSE, reason |-> "Too small: "]],
       [when |-> category \in {"icon", "decorative"},
        then |-> [should_vlm |-> FALSE, reason |-> "Predicted category: "]],
       [when |-> category = "logo" /\ overall < 40 * Micro,
        then |-> [should_vlm |-> FALSE, reason |-> "Likely logo with low relevance: "]],
       [when |-> overall < 30 * Micro,
        then |-> [should_vlm |-> FALSE, reason |-> "Low relevance score: "]],
       [when |-> TRUE,
        then |-> [should_vlm |-> TRUE, reason |-> "None"]] >>

ReasonText(skip_reason) == IF skip_reason = None THEN "None" ELSE skip_reason.text

C5_DecisionCascade ==
    Returned("analyze_image") =>
        LET v == result.value
            d == FirstMatch(DecisionRules(result.file.width, result.file.height,
                                          v.predicted_category,
                                          locals.overall_relevance))
        IN  /\ v.should_vlm = d.should_vlm
            /\ ReasonText(v.skip_reason) = d.reason
            /\ d.reason = "Predicted category: " =>
                   v.skip_reason.category = v.predicted_category

\* a tiny icon: the size rule and the category rule both match, and the
\* reason is the size
C5_Witness ==
    /\ Returned("analyze_image")
    /\ Max(result.file.width, result.file.height) < 50
    /\ result.value.predicted_category = "icon"
    /\ ReasonText(result.value.skip_reason) = "Too small: "

\* C6: overall_relevance = 0.30 size_score + 0.20 aspect_score
\* + 0.30 diversity_score + 0.20 category_bonus[category] with the bonus
\* photo 1.0, chart 1.0, document 0.9, unknown 0.5, logo 0.2, icon 0.1,
\* decorative 0.1; the verdict reports it rounded to three decimals.
BonusTenths(category) ==
    CASE category \in {"photo", "chart"} -> 10
      [] category = "document" -> 9
      [] category = "unknown" -> 5
      [] category = "logo" -> 2
      [] category \in {"icon", "decorative"} -> 1

WeightedSum(size, aspect, diversity, category) ==
    (30 * size + 20 * aspect + 30 * diversity) + 20 * ((BonusTenths(category) * Micro) \div 10)

C6_WeightedRelevance ==
    Returned("analyze_image") =>
        LET sum == WeightedSum(calculate_size_score(result.file.width, result.file.height),
                               calculate_aspect_score(result.file.width, result.file.height),
                               get_color_diversity(result.file).diversity_score,
                               result.value.predicted_category)
        IN  /\ locals.overall_relevance = sum
            /\ result.value.overall_relevance
                   \in {RoundDiv(sum, 100 * 1000, t) : t \in {0, 1}}

\* a document: every weight and the bonus 0.9 take part
C6_Witness ==
    /\ Returned("analyze_image")
    /\ result.value.predicted_category = "document"
    /\ result.value.size_score = 400
    /\ result.value.overall_relevance > 0

\* C7: in the OCR profile an image wider than max_width comes back with
\* resized = true, output_width = max_width, output_height = original_height
\* * max_width / original_width rounded to the nearest integer, and
\* scale_factor = max_width / original_width (reported to four decimals).
Nearest(n, d) == {RoundDiv(n, d, t) : t \in {0, 1}}

C7_HeightRoundedToNearest ==
    (/\ result.call = "resize_for_ocr"
     /\ result.file.kind = "image"
     /\ result.file.width > result.max_width) =>
        /\ result.raised = "None"
        /\ result.value.resized = TRUE
        /\ result.value.output_width = result.max_width
        /\ result.value.output_height
               \in Nearest(result.file.height * result.max_width, result.file.width)
        /\ result.value.scale_factor
               \in Nearest(10000 * result.max_width, result.file.width)

\* C8: resize_for_vlm has exactly one of three outcomes, decided by
\* max(w, h): skipped when it is below skip_below; resized = false with the
\* dimensions unchanged when it is within max_dimension; otherwise
\* resized = true, the larger output dimension equal to max_dimension and
\* the smaller within integer rounding of the original smaller dimension
\* times max_dimension / max(w, h).
WithinRounding(x, n, d) == d * (x - 1) < n /\ n < d * (x + 1)

C8_ThreeOutcomes ==
    (result.call = "resize_for_vlm" /\ result.file.kind = "image") =>
        LET v == result.value
            w == result.file.width
            h == result.file.height
        IN  /\ result.raised = "None"
            /\ IF Max(w, h) < result.skip_below
               THEN /\ "skipped" \in DOMAIN v
                    /\ v.skipped = TRUE
                    /\ "resized" \notin DOMAIN v
               ELSE /\ "skipped" \notin DOMAIN v
                    /\ IF Max(w, h) <= result.max_dimension
                       THEN /\ v.resized = FALSE
                            /\ v.output_width = w
                            /\ v.output_height = h
                       ELSE /\ v.resized = TRUE
                            /\ Max(v.output_width, v.output_height) = result.max_dimension
                            /\ WithinRounding(Min(v.output_width, v.output_height),
                                              Min(w, h) * result.max_dimension, Max(w, h))
                            /\ (v.output_width >= v.output_height) <=> (w >= h)

\* C9: in analyze_directory a file that cannot be decoded does not end the
\* scan: it gets the entry {path, error, should_vlm: false} in images, the
\* loop body carries on from any entry left, failing or not, to the results
\* with that entry added, the return is open once no entry is left, and the
\* summary returned holds an entry for every candidate file, whichever of
\* them failed.
Candidates == {e \in Entries : dir[e] # Absent /\ Lower(e.suffix) \in image_extensions}

EntriesFor(images, e) == {i \in 1..Len(images) : images[i].path = e}

Recorded(images, e) ==
    \E i \in 1..Len(images) :
        /\ EntriesFor(images, e) = {i}
        /\ IF OpenError(dir[e]) # "None"
           THEN images[i] = [path |-> e, error |-> OpenError(dir[e]), should_vlm |-> FALSE]
           ELSE /\ "error" \notin DOMAIN images[i]
                /\ images[i].width = dir[e].width
                /\ images[i].height = dir[e].height

\* what one more iteration, on entry e, makes of the results so far
CarriesOn(e) ==
    \A tie \in (IF OpenError(dir[e]) = "None" THEN Ties(dir[e]) ELSE {None}) :
        LET after == LoopBody(results, e, dir[e], tie) IN
        IF e \in Candidates
        THEN /\ Len(after.images) = Len(results.images) + 1
             /\ SubSeq(after.images, 1, Len(results.images)) = results.images
             /\ Recorded(after.images, e)
        ELSE after = results

C9_FailureDoesNotAbortScan ==
    /\ pc = "scan" =>
          /\ \A e \in Candidates \ todo : Recorded(results.images, e)
          /\ \A e \in todo : CarriesOn(e)
          /\ todo = {} => ENABLED AnalyzeDirectoryReturn
    /\ Returned("analyze_directory") =>
          \A e \in Candidates : Recorded(result.value.images, e)

\* the first file scanned failed and the second was analysed all the same
C9_Witness ==
    /\ Returned("analyze_directory")
    /\ Len(result.value.images) >= 2
    /\ "error" \in DOMAIN result.value.images[1]
    /\ "error" \notin DOMAIN result.value.images[2]

\* C10: analyze_directory returns total = the number of files with a
\* recognised image extension, len(images) = total, and total = should_vlm
\* + skip_too_small + skip_logo_icon + skip_decorative + skip_low_relevance
\* + the number of entries carrying error.
ErrorEntries(images) == {i \in 1..Len(images) : "error" \in DOMAIN images[i]}

C10_TotalsAddUp ==
    Returned("analyze_directory") =>
        LET v == result.value IN
        /\ v.total = Cardinality(Candidates)
        /\ Len(v.images) = v.total
        /\ v.total = v.should_vlm + v.skip_too_small + v.skip_logo_icon
                       + v.skip_decorative + v.skip_low_relevance
                       + Cardinality(ErrorEntries(v.images))

\* two image files, one of them undecodable, next to a file that is no image
C10_Witness ==
    /\ Returned("analyze_directory")
    /\ \E e \in Entries : dir[e] # Absent /\ Lower(e.suffix) \notin image_extensions
    /\ result.value.total = 2
    /\ Cardinality(ErrorEntries(result.value.images)) = 1

\* C11: each image analyze_directory analyses is counted in exactly one of
\* the five counters, the first that matches in the order: should_vlm;
\* skip_too_small (the skip reason mentions the size); skip_logo_icon
\* (category logo or icon); skip_decorative (category decorative);
\* skip_low_relevance (any other skipped image).  So every counter equals
\* the number of analysed entries of images whose first match it is.
Counters ==
    {"should_vlm", "skip_too_small", "skip_logo_icon", "skip_decorative",
     "skip_low_relevance"}

CounterRules(entry) ==
    << [when |-> entry.should_vlm, then |-> "should_vlm"],
       [when |-> "skip_reason" \in DOMAIN entry /\ entry.skip_reason.text = "Too small: ",
        then |-> "skip_too_small"],
       [when |-> entry.category \in {"logo", "icon"}, then |-> "skip_logo_icon"],
       [when |-> entry.category = "decorative", then |-> "skip_decorative"],
       [when |-> TRUE, then |-> "skip_low_relevance"] >>

Analysed(images) == {i \in 1..Len(images) : "error" \notin DOMAIN images[i]}

CountedOnce(res) ==
    \A c \in Counters :
        res[c] = Cardinality({i \in Analysed(res.images) :
                                 FirstMatch(CounterRules(res.images[i])) = c})

C11_OneCounterByPriority ==
    /\ pc = "scan" => CountedOnce(results)
    /\ Returned("analyze_directory") => CountedOnce(result.value)

\* a tiny icon was scanned: counted as too small, not as an icon
C11_Witness ==
    /\ Returned("analyze_directory")
    /\ \E i \in Analysed(result.value.images) :
           /\ Max(result.value.images[i].width, result.value.images[i].height) < 50
           /\ result.value.images[i].category = "icon"
    /\ result.value.skip_too_small = 1
    /\ result.value.skip_logo_icon = 0

\* C12: analyze_image is deterministic and independent of history.  The
\* verdict is the analysis of the file that lies at the path, whatever was
\* called before, and a call on the image the call before analysed, with
\* any resize or directory calls in between, returns the verdict that call
\* returned, field for field.
VerdictOfTheFile ==
    Returned("analyze_image") =>
        LET file == disk[result.image_path]
            l == analyze_locals(file)
            d == decide(l, previous.tie)
            v == result.value
        IN  /\ result.file = file
            /\ previous.file = file
            /\ previous.value = v
            /\ v.width = file.width
            /\ v.height = file.height
            /\ v.unique_colors = l.unique_colors
            /\ v.predicted_category = l.category
            /\ v.size_score = RoundDiv(l.size_score, 1000, 0)
            /\ v.color_diversity_score \in {RoundDiv(l.color_diversity, 1000, t) : t \in {0, 1}}
            /\ v.aspect_score \in {RoundDiv(l.aspect_score, 1000, t) : t \in {0, 1}}
            /\ v.overall_relevance
                   \in {RoundDiv(l.overall_relevance, 100 * 1000, t) : t \in {0, 1}}
            /\ v.should_vlm = d.should_vlm
            /\ v.skip_reason = d.skip_reason

SameVerdictAgain ==
    (/\ pc = "idle" /\ pc' = "idle"
     /\ result'.call = "analyze_image" /\ result'.raised = "None"
     /\ previous # None
     /\ previous.file = disk[result'.image_path]) =>
        result'.value = previous.value

C13_AlwaysACategory ==
    Returned("predict_category") => result.value \in ImageCategory

\* no rule but the last applies: few colours on a large, compact image
C13_Witness ==
    /\ Returned("predict_category")
    /\ result.unique_colors < 16
    /\ Min(result.width, result.height) >= 400
    /\ result.color_diversity = 0
    /\ result.value = "unknown"

\* C14 as claimed: a 600x100 banner (aspect ratio exactly 6.0) is
\* classified decorative for every colour count, is not processed, and its
\* skip reason references the predicted category.
IsBannerAtSix(file) ==
    file.kind = "image" /\ file.width = 600 /\ file.height = 100

C14_BannerAtSixIsDecorative ==
    (Returned("analyze_image") /\ IsBannerAtSix(result.file)) =>
        /\ result.value.predicted_category = "decorative"
        /\ result.value.should_vlm = FALSE
        /\ ReasonText(result.value.skip_reason) = "Predicted category: "
        /\ result.value.skip_reason.category = "decorative"

\* C14 as the code has it: the decorative rule needs an aspect ratio above
\* 6, so a 600x100 banner passes it and is classified by the later rules
\* (unknown below 16 colours, document from 16 to 48, photo from 49 on),
\* never with a reason that names the decorative category; a banner of
\* larger side >= 400 and aspect ratio above 6, such as 601x100, is
\* decorative for every colour count, is not processed, and its skip reason
\* names that category.
C14_DecorativeAboveSixOnly ==
    Returned("analyze_image") =>
        LET v == result.value
            hi == Max(result.file.width, result.file.height)
            lo == Min(result.file.width, result.file.height)
        IN  /\ IsBannerAtSix(result.file) =>
                  /\ v.predicted_category =
                         (IF v.unique_colors < 16 THEN "unknown"
                          ELSE IF v.unique_colors < 49 THEN "document"
                          ELSE "photo")
                  /\ ReasonText(v.skip_reason) # "Predicted category: "
            /\ (hi >= 400 /\ hi > 6 * lo) =>
                  /\ v.predicted_category = "decorative"
                  /\ v.should_vlm = FALSE
                  /\ ReasonText(v.skip_reason) = "Predicted category: "
                  /\ v.skip_reason.category = "decorative"

\* the 600x100 banner in many colours came out a photo
C14_Witness ==
    /\ Returned("analyze_image")
    /\ IsBannerAtSix(result.file)
    /\ result.value.unique_colors >= 256
    /\ result.value.predicted_category = "photo"

\* C15: every image whose larger side is below 50 has size_score 0.0, is
\* classified icon and is not processed; a 40x40 image of one colour has
\* unique_colors = 1 and diversity 0.0 besides.
C15_TinyImagesAreSkippedIcons ==
    (Returned("analyze_image")
        /\ Max(result.file.width, result.file.height) < 50) =>
        LET v == result.value IN
        /\ v.size_score = 0
        /\ locals.size_score = 0
        /\ v.predicted_category = "icon"
        /\ v.should_vlm = FALSE
        /\ v.skip_reason # None
        /\ result.file.colors = 1 =>
              /\ v.unique_colors = 1
              /\ v.color_diversity_score = 0
              /\ locals.color_diversity = 0

\* the 40x40 image of one colour
C15_Witness ==
    /\ Returned("analyze_image")
    /\ result.file = Image(40, 40, 1)
    /\ result.value.size_score = 0
    /\ result.value.predicted_category = "icon"
    /\ result.value.should_vlm = FALSE

\* C16: an image with at least 256 distinct sampled colours, an area of at
\* least 160000 pixels and an aspect ratio of at most 2 gets diversity 1.0,
\* size_score 1.0, aspect_score 1.0, the category photo, overall_relevance
\* exactly 1.0, and is processed.
IsLargePhoto(file) ==
    /\ file.kind = "image"
    /\ file.colors >= 256
    /\ file.width * file.height >= 160000
    /\ Max(file.width, file.height) <= 2 * Min(file.width, file.height)

C16_LargePhotoScoresOne ==
    (Returned("analyze_image") /\ IsLargePhoto(result.file)) =>
        LET v == result.value IN
        /\ locals.color_diversity = Micro /\ v.color_diversity_score = 1000
        /\ locals.size_score = Micro /\ v.size_score = 1000
        /\ locals.aspect_score = Micro /\ v.aspect_score = 1000
        /\ v.predicted_category = "photo"
        /\ locals.overall_relevance = 100 * Micro /\ v.overall_relevance = 1000
        /\ v.should_vlm = TRUE
        /\ v.skip_reason = None

\* an image on both edges of the case: 160000 pixels, 256 colours
C16_Witness ==
    /\ Returned("analyze_image")
    /\ result.file = Image(400, 400, 256)
    /\ result.value.overall_relevance = 1000
    /\ result.value.should_vlm = TRUE

\* C17: when resize_for_vlm skips an image (its larger side is below
\* skip_below) it writes no file and leaves every file, the one at
\* output_path included, as it was; the result carries skipped = true and a
\* reason stating the dimensions, and no output_width, output_height or
\* output_path.
Skipped(r) ==
    r.call = "resize_for_vlm" /\ r.raised = "None" /\ "skipped" \in DOMAIN r.value

SkipResult ==
    Returned("resize_for_vlm") =>
        /\ Skipped(result) <=>
               Max(result.file.width, result.file.height) < result.skip_below
        /\ Skipped(result) =>
               /\ result.value.skipped = TRUE
               /\ result.value.skip_reason =
                      [text |-> "Image too small: ",
                       width |-> result.file.width, height |-> result.file.height]
               /\ DOMAIN result.value =
                      {"success", "skipped", "skip_reason",
                       "original_width", "original_height"}

SkipWritesNothing ==
    (pc = "idle" /\ pc' = "idle" /\ Skipped(result')) => disk' = disk

C17_SkipLeavesFilesAlone == [](SkipResult) /\ [][SkipWritesNothing]_vars

\* a skip whose output_path already held a file
C17_Witness ==
    /\ Skipped(result)
    /\ result.skip_below = MIN_DIMENSION_VLM
    /\ result.output_path = "out.png"
    /\ result.input_path = "in.png"
    /\ disk["out.png"] # Absent

\* C18: a run of main in one of the four modes prints exactly one JSON
\* document and exits with 0 exactly when that document has success = true;
\* a file that is missing or cannot be decoded in the analyze and resize
\* modes, and a resize mode without --output, give {success: false, error}
\* and exit status 1, and without --output no image is opened or written.
ResizeWithoutOutput(r) ==
    r.call = "main" /\ r.mode \in {"resize_for_ocr", "resize_for_vlm"} /\ r.output = NoOutput

FileError(r) ==
    r.call = "main" /\ r.mode \in {"analyze", "resize_for_ocr", "resize_for_vlm"}
        /\ OpenError(r.file) # "None"

OneDocumentAndStatus ==
    result.call = "main" =>
        /\ Len(result.stdout) = 1
        /\ result.exit \in {0, 1}
        /\ (result.exit = 0) <=> (result.stdout[1].success = TRUE)
        /\ (ResizeWithoutOutput(result) \/ FileError(result)) =>
               /\ DOMAIN result.stdout[1] = {"success", "error"}
               /\ result.stdout[1].success = FALSE
               /\ result.exit = 1
        /\ ResizeWithoutOutput(result) => ~result.opened

NoOutputNoWrite ==
    ResizeWithoutOutput(result') => disk' = disk

C18_OneDocumentExitStatus == [](OneDocumentAndStatus) /\ [][NoOutputNoWrite]_vars

\* a resize of a file that cannot be decoded, --output given
C18_Witness ==
    /\ result.call = "main"
    /\ result.mode = "resize_for_vlm"
    /\ result.output = "out.png"
    /\ result.file = Corrupt
    /\ result.exit = 1
    /\ result.stdout[1].success = FALSE

\* C19: in analyze_directory an entry whose extension is none of the image
\* extensions is passed over in silence: its iteration leaves total, the
\* counters and images as they were, whatever the file holds (it is not
\* opened), and the summary has no entry for it, neither a result nor an
\* error.
OtherSuffixes == {".txt", ".TXT", ".pdf", ".md", ""}

Others == {e \in Entries : dir[e] # Absent /\ e.suffix \in OtherSuffixes}

NoTraceOfOthers(res) ==
    /\ \A e \in Others : EntriesFor(res.images, e) = {}
    /\ res.total = Cardinality({e \in Entries : dir[e] # Absent /\ e \notin Others
                                                  /\ e \notin todo})

OthersPassedOver ==
    /\ pc = "scan" =>
          /\ NoTraceOfOthers(results)
          /\ \A e \in Others \cap todo : \A f \in DirImages \cup {Corrupt} :
                 LoopBody(results, e, f, None) = results
    /\ Returned("analyze_directory") => NoTraceOfOthers(result.value)

OtherStepChangesNothing ==
    (pc = "scan" /\ \E e \in Others : e \in todo /\ e \notin todo') =>
        results' = results

C19_OtherFilesPassedOver == [](OthersPassedOver) /\ [][OtherStepChangesNothing]_vars

\* a scan of a directory that holds one image and one file that is none
C19_Witness ==
    /\ Returned("analyze_directory")
    /\ Others # {}
    /\ result.value.total = 1
    /\ Len(result.value.images) = 1
    /\ "error" \notin DOMAIN result.value.images[1]

\* C20: min_relevance is the least relevance an image needs to be
\* processed: whatever F analyze_directory is given, no image whose
\* overall_relevance is below F is reported with should_vlm = true, and the
\* should_vlm counter counts no such image.  (F is in units of 1e-8, the
\* relevance reported in thousandths.)
BelowMinRelevance(entry, F) == entry.relevance * 100 * 1000 < F

C20_MinRelevanceIsHonoured ==
    Returned("analyze_directory") =>
        LET v == result.value
            passed == {i \in Analysed(v.images) :
                          ~BelowMinRelevance(v.images[i], result.min_relevance)}
        IN  /\ \A i \in Analysed(v.images) :
                   BelowMinRelevance(v.images[i], result.min_relevance) =>
                       v.images[i].should_vlm = FALSE
            /\ v.should_vlm <= Cardinality(passed)

----------------------------------------------------------------------------
\* C21: get_color_diversity maps the distinct colours of the sample to its
\* score: more than 65536 colours give (65536, 1.0), at most one colour 0.0,
\* 256 colours or more 1.0, anything between log2(unique_colors) / 8 (here to
\* the millionth); the count reported never exceeds 65536, and of two calls
\* the one that reports more colours never has the lower score.
C21_ColorsToScore ==
    Returned("get_color_diversity") =>
        LET u == result.img.colors
            v == result.value
        IN  /\ v.unique_colors = Min(u, MAXCOLORS)
            /\ u > MAXCOLORS => v.diversity_score = Micro
            /\ u <= 1 => v.diversity_score = 0
            /\ u >= 256 => v.diversity_score = Micro
            /\ (1 < u /\ u < 256) =>
                   /\ 8 * v.diversity_score <= Log2Micro[u]
                   /\ Log2Micro[u] < 8 * (v.diversity_score + 1)
            /\ (previous # None /\ previous.value.unique_colors <= v.unique_colors)
                   => previous.value.diversity_score <= v.diversity_score

\* a sample over the cap of getcolors, after one on the logarithmic part
C21_Witness ==
    /\ Returned("get_color_diversity")
    /\ result.img.colors > MAXCOLORS
    /\ result.value = [unique_colors |-> MAXCOLORS, diversity_score |-> Micro]
    /\ previous # None
    /\ previous.img.colors = 16
    /\ previous.value.diversity_score = Micro \div 2

\* max_dim / min_dim of a size with no zero side is at most, or above, k
RatioAtMost(size, k) ==
    Max(size.width, size.height) <= k * Min(size.width, size.height)

\* the ratio of a is at most that of b
RatioNoLarger(a, b) ==
    Max(a.width, a.height) * Min(b.width, b.height)
        <= Max(b.width, b.height) * Min(a.width, a.height)

NoZeroSide(size) == size.width # 0 /\ size.height # 0

\* C22: calculate_aspect_score returns 0.0 when a side is 0; otherwise, with
\* ratio = max(w, h) / min(w, h), 1.0 up to ratio 2, 1.0 - 0.5 * (ratio - 2) / 2
\* up to ratio 4 and max(0.1, 0.5 - 0.1 * (ratio - 4)) above (here to the
\* millionth).  So the score never rises with the ratio, is 0.5 at ratio 4
\* and next to it on either side, and is exactly 0.1 from ratio 8 on.
C22_AspectScore ==
    Returned("calculate_aspect_score") =>
        LET hi == Max(result.width, result.height)
            lo == Min(result.width, result.height)
            v  == result.value
        IN  IF ~NoZeroSide(result) THEN v = 0
            ELSE /\ hi <= 2 * lo => v = Micro
                 /\ (2 * lo < hi /\ hi <= 4 * lo) =>
                        v - (Micro - MulDivMicro(hi - 2 * lo, 4 * lo)) \in {0, 1}
                 /\ (4 * lo < hi /\ hi < 8 * lo) =>
                        /\ v - (Micro \div 2 - MulDivMicro(hi - 4 * lo, 10 * lo)) \in {0, 1}
                        /\ v >= Micro \div 10
                 /\ hi = 4 * lo => v = Micro \div 2
                 /\ (399 * lo <= 100 * hi /\ 100 * hi <= 401 * lo) =>
                        (v <= Micro \div 2 + 2500 /\ v >= Micro \div 2 - 1000)
                 /\ hi >= 8 * lo => v = Micro \div 10
                 /\ (previous # None /\ NoZeroSide(previous)
                        /\ RatioNoLarger(previous, result))
                        => previous.value >= v

\* a ratio of 8 after a ratio just above 4
C22_Witness ==
    /\ Returned("calculate_aspect_score")
    /\ result.width = 800 /\ result.height = 100
    /\ result.value = Micro \div 10
    /\ previous # None
    /\ previous.width = 401 /\ previous.height = 100
    /\ previous.value < Micro \div 2
    /\ previous.value > 499 * (Micro \div 1000) - 1

\* C23: calculate_size_score is the step function of p = w * h: 0.0 below
\* 2500, 0.2 from 2500, 0.4 from 10000, 0.7 from 40000 and 1.0 from 160000,
\* each threshold belonging to the higher step; it never falls as p grows.
C23_SizeSteps ==
    Returned("calculate_size_score") =>
        LET p == result.width * result.height
            v == result.value
        IN  /\ p < 2500 => v = 0
            /\ (2500 <= p /\ p < 10000) => v = 2 * (Micro \div 10)
            /\ (10000 <= p /\ p < 40000) => v = 4 * (Micro \div 10)
            /\ (40000 <= p /\ p < 160000) => v = 7 * (Micro \div 10)
            /\ p >= 160000 => v = Micro
            /\ (previous # None /\ previous.width * previous.height <= p)
                   => previous.value <= v

\* 160000 pixels after 159999
C23_Witness ==
    /\ Returned("calculate_size_score")
    /\ result.width * result.height = 160000
    /\ result.value = Micro
    /\ previous # None
    /\ previous.width * previous.height = 159999
    /\ previous.value = 7 * (Micro \div 10)

----------------------------------------------------------------------------
\* C28: the image whose colours get_color_diversity counts has at most
\* sample_size pixels, whatever the width and height: it is the full image
\* when width * height <= sample_size, and the nearest-neighbour sample
\* otherwise.
C28_SampleWithinSampleSize ==
    Returned("get_color_diversity") =>
        LET img == result.img IN
        /\ result.sample_img[1] * result.sample_img[2] <= result.sample_size
        /\ img.width * img.height <= result.sample_size
               => result.sample_img = <<img.width, img.height>>

----------------------------------------------------------------------------
----------------------------------------------------------------------------
Kept == {"photo", "chart", "document"}

\* C26: every image analyze_image classifies as photo, chart or document is
\* processed, with should_vlm true and no skip_reason: for these categories
\* the weighted relevance is never below 0.3 and the image is never too
\* small.
C26_KeptCategoriesAreProcessed ==
    (Returned("analyze_image") /\ result.value.predicted_category \in Kept) =>
        /\ result.value.should_vlm = TRUE
        /\ result.value.skip_reason = None
        /\ locals.overall_relevance >= MIN_RELEVANCE_SCORE
        /\ Max(result.file.width, result.file.height) >= MIN_DIMENSION_VLM

\* the document of least relevance: a 66 x 11 strip of 16 colours, with size
\* score 0 and aspect score 0.3
C26_Witness ==
    /\ Returned("analyze_image")
    /\ result.file = Image(66, 11, 16)
    /\ result.value.predicted_category = "document"
    /\ result.value.size_score = 0
    /\ result.value.aspect_score = 300
    /\ result.value.overall_relevance = 390
    /\ result.value.should_vlm = TRUE

\* C29: the overall_relevance a verdict reports, rounded to 3 decimals,
\* agrees with the decision: it is at least 0.3 (0.4 for a logo) whenever
\* should_vlm is true, below 0.3 whenever the skip reason is the
\* low-relevance one and below 0.4 whenever it is the logo one.
C29_ReportedRelevanceAgrees ==
    Returned("analyze_image") =>
        LET v == result.value IN
        /\ v.should_vlm =>
              /\ v.overall_relevance >= 300
              /\ v.predicted_category = "logo" => v.overall_relevance >= 400
        /\ ReasonText(v.skip_reason) = "Low relevance score: "
              => v.overall_relevance < 300
        /\ ReasonText(v.skip_reason) = "Likely logo with low relevance: "
              => v.overall_relevance < 400

----------------------------------------------------------------------------
\* what becomes of document i of the batch: its OCRResult, or its OCRError
EntryOf(i) ==
    LET file == disk[locals.file_paths[i]] IN
    IF file = Absent
    THEN [type |-> "OCRFileError", file_path |-> locals.file_paths[i]]
    ELSE IF file.convert = "DatalabTimeoutError" THEN [type |-> "OCRTimeoutError"]
    ELSE IF file.convert = "failed" THEN [type |-> "OCRAPIError", status_code |-> 500]
    ELSE [type |-> "OCRResult", document_id |-> locals.document_ids[i],
          provenance_id |-> locals.provenance_ids[i]]

\* no document meets anything but success or an OCRError: the API key is
\* set, or no file gets as far as needing it
OnlyOCRErrors ==
    \/ locals.environ.DATALAB_API_KEY # ""
    \/ \A i \in 1..Len(locals.file_paths) : disk[locals.file_paths[i]] = Absent

BatchOver == result.call = "process_batch" /\ pc = "idle"

----------------------------------------------------------------------------
\* the attempts of the embed_with_oom_recovery call under way or just over
InRecovery == pc = "while" \/ (pc = "idle" /\ result.call = "embed_with_oom_recovery")

LastAttempt == previous[Len(previous)]

\* the attempts start at initial_batch_size, stay at or above MIN_BATCH_SIZE
\* and halve after each out-of-memory failure
HalvingAttempts ==
    InRecovery =>
        /\ previous # <<>> =>
              previous[1].batch_size =
                  (IF pc = "while" THEN locals.initial_batch_size
                   ELSE result.initial_batch_size)
        /\ \A k \in 1..Len(previous) : previous[k].batch_size >= MIN_BATCH_SIZE
        /\ \A k \in 1..Len(previous) - 1 :
              /\ previous[k].raised = "OutOfMemoryError"
              /\ previous[k + 1].batch_size = previous[k].batch_size \div 2

\* the call ends by returning what the last attempt embedded, with its batch
\* size, or by raising GPUOutOfMemoryError after an attempt at
\* MIN_BATCH_SIZE ran out of memory (or with the exception, other than
\* out of memory, that the last attempt met)
EndsOfRecovery ==
    (pc = "idle" /\ result.call = "embed_with_oom_recovery") =>
        \/ /\ result.raised = "None"
           /\ previous # <<>>
           /\ LastAttempt.raised = "None"
           /\ result.value.batch_size = LastAttempt.batch_size
        \/ /\ result.raised = "GPUOutOfMemoryError"
           /\ previous # <<>>
           /\ LastAttempt.batch_size = MIN_BATCH_SIZE
           /\ LastAttempt.raised = "OutOfMemoryError"
        \/ /\ result.raised \notin {"None", "GPUOutOfMemoryError"}
           /\ previous # <<>>
           /\ LastAttempt.raised = result.raised

\* C25: embed_with_oom_recovery always terminates: from initial_batch_size
\* on it attempts the embedding, halves the batch size after each
\* out-of-memory failure, attempts only batch sizes >= MIN_BATCH_SIZE, and
\* ends either by returning the embeddings with the batch size of the
\* attempt that succeeded or by raising GPUOutOfMemoryError once an attempt
\* at the minimum batch size has run out of memory.
C25_RecoveryTerminates ==
    /\ [](HalvingAttempts /\ EndsOfRecovery)
    /\ (pc = "while") ~> (pc = "idle")

\* a load_model call has just raised
LoadModelRaised ==
    /\ pc = "idle" /\ pc' = "idle"
    /\ result'.call = "load_model"
    /\ result'.raised # "None"

\* C30: a load_model call that raises leaves no model cached: _model and
\* _device are as they were before the failed call, so that a later
\* load_model for the same device runs the checks again; the model a call
\* returns is one whose load for that device succeeded, with the embedding
\* dimension verified.
C30_FailedLoadCachesNothing ==
    /\ [](Returned("load_model") =>
              /\ result.value.device = result.device
              /\ result.value.dim = EMBEDDING_DIM)
    /\ [][LoadModelRaised => UNCHANGED <<_model, _device>>]_vars

====
